---- MODULE Spec2Model ----
(***************************************************************************)
(* Access-control middleware of the ContentFlow AI backend                 *)
(* (src/src/middlewares/auth.js): authenticateToken, requireRole and       *)
(* requireWorkspaceAccess, run as Express pipeline stages against the      *)
(* users, workspaces, workspace_members and clients tables.                *)
(*                                                                         *)
(* A request is the triple (req.user, the response written, the stages     *)
(* that ran).  Each stage is one action: the stages only read the store,   *)
(* so the awaits inside a stage cannot observe a change and the handler    *)
(* is modelled as one step.  What a stage read and did during its run is   *)
(* kept in the variable call.                                              *)
(*                                                                         *)
(* The routes built on the middleware are further specifications over the  *)
(* same store: SpecUsers (PUT /api/users/:id), SpecContent (the content    *)
(* create, update and comment routes) and SpecSocial (the OAuth connect    *)
(* and callback routes and the test write route).  There a whole chain,    *)
(* authenticateToken, validator and handler, is one action, and the        *)
(* variable route keeps the request it served.                             *)
(***************************************************************************)
EXTENDS Integers, Sequences, FiniteSets, TLC

VARIABLES users, workspaces, workspace_members, clients,
          reqUser, res, ran, phase, call,
          content_items, content_comments, social_accounts, test_table, route, served,
          env, issued, saved_inspiration, saving, hashtag_packs

store == <<users, workspaces, workspace_members, clients>>

\* the tables of the route handlers, and how many requests they have served
routeStore ==
    <<content_items, content_comments, social_accounts, test_table, served, env, issued,
      saved_inspiration, saving, hashtag_packs>>

vars == <<users, workspaces, workspace_members, clients, reqUser, res, ran, phase, call,
          content_items, content_comments, social_accounts, test_table, route, served,
          env, issued, saved_inspiration, saving, hashtag_packs>>

----------------------------------------------------------------------------
(* Bounds and value sets *)

NumUsers == 3

\* null / undefined identifier: an absent path parameter, a NULL foreign key,
\* the userId of a payload that has none
NoId == 0

UserIds == 1..NumUsers
WorkspaceIds == {1}
ClientIds == {1}

\* identifiers a path can carry: none, one of a stored row, one of no row
PathWorkspaceIds == {NoId} \cup WorkspaceIds \cup {2}
PathClientIds == {NoId} \cup ClientIds \cup {2}

Roles == {"admin", "agency", "creator", "client"}
Statuses == {"active", "inactive", "suspended"}
MemberStatuses == {"active", "inactive", "pending"}

JWT_SECRET == "secret"

\* a missing row (data: null), and req.user before any stage has set it
NoRow == [id |-> NoId, role |-> "none", status |-> "none"]
NoUser == NoRow
NoWorkspace == [id |-> NoId, owner_id |-> NoId]
NoClient == [id |-> NoId, user_id |-> NoId, creator_id |-> NoId, workspace_id |-> NoId]

UserRows == [id : UserIds, role : Roles, status : Statuses]

\* the roles the rows other than user 1 carry
RoleOrder == <<"admin", "agency", "creator", "client">>
DefaultUser(u) == [id |-> u, role |-> RoleOrder[(u % 4) + 1], status |-> "active"]

----------------------------------------------------------------------------
(* Responses: res.status(s).json({error, message}) *)

NoRes == [status |-> 0, error |-> "", message |-> ""]
Json(s, e, m) == [status |-> s, error |-> e, message |-> m]

----------------------------------------------------------------------------
(* The Authorization header: a string, as a sequence of characters.  A     *)
(* character is a space, a letter run (a word) or a whole signed JWT.      *)

SP == [c |-> "sp"]
Word(w) == [c |-> "word", w |-> w]
Jwt(key, exp, userId) == [c |-> "jwt", key |-> key, exp |-> exp, userId |-> userId]

Tokens ==
    {Jwt(JWT_SECRET, "future", u) : u \in UserIds \cup {NoId, NumUsers + 1}}
    \cup {Jwt(JWT_SECRET, "past", 1), Jwt("other", "future", 1), Jwt("other", "past", 1)}

NoHeader == [present |-> FALSE, value |-> <<>>]
Header(s) == [present |-> TRUE, value |-> s]

Headers ==
    {NoHeader, Header(<<>>), Header(<<Word("Bearer")>>), Header(<<Word("Bearer"), SP>>),
     Header(<<Word("Bearer"), SP, Word("garbage")>>),
     Header(<<Word("Bearer"), SP, SP, Jwt(JWT_SECRET, "future", 1)>>),
     Header(<<Jwt(JWT_SECRET, "future", 1)>>),
     Header(<<Word("Basic"), SP, Jwt(JWT_SECRET, "future", 1)>>),
     Header(<<Word("Bearer"), SP, Jwt(JWT_SECRET, "future", 1), SP, Word("x")>>),
     Header(<<Word("Bearer"), SP, Jwt(JWT_SECRET, "future", 1), Word("x")>>)}
    \cup {Header(<<Word("Bearer"), SP, t>>) : t \in Tokens}

\* String.prototype.split(' '): the parts between the spaces, empty parts kept
RECURSIVE SplitFrom(_, _, _)
SplitFrom(s, i, cur) ==
    IF i > Len(s) THEN <<cur>>
    ELSE IF s[i].c = "sp" THEN <<cur>> \o SplitFrom(s, i + 1, <<>>)
    ELSE SplitFrom(s, i + 1, Append(cur, s[i]))

Split(s) == SplitFrom(s, 1, <<>>)

\* authHeader && authHeader.split(' ')[1]
TokenOfMissesIndex(authHeader) ==
    IF ~authHeader.present \/ authHeader.value = <<>>
    THEN [defined |-> authHeader.present, part |-> <<>>]
    ELSE [defined |-> TRUE, part |-> Split(authHeader.value)[Len(Split(authHeader.value))]]

TokenOf(authHeader) ==
    IF ~authHeader.present \/ authHeader.value = <<>>
    THEN [defined |-> authHeader.present, part |-> <<>>]
    ELSE LET parts == Split(authHeader.value)
         IN IF Len(parts) >= 2 THEN [defined |-> TRUE, part |-> parts[2]]
            ELSE [defined |-> FALSE, part |-> <<>>]

\* !token
Falsy(token) == ~token.defined \/ token.part = <<>>

----------------------------------------------------------------------------
(* jwt.verify(token, process.env.JWT_SECRET): the payload, or the name of  *)
(* the error thrown.  The format is checked first, then the signature,     *)
(* then the expiry.                                                        *)

Decoded(userId) == [ok |-> TRUE, name |-> "", userId |-> userId]
Thrown(name) == [ok |-> FALSE, name |-> name, userId |-> NoId]

JwtVerifySkipsSignature(part, secret) ==
    IF Len(part) # 1 \/ part[1].c # "jwt" THEN Thrown("JsonWebTokenError")
    ELSE IF part[1].exp = "past" THEN Thrown("TokenExpiredError")
    ELSE Decoded(part[1].userId)

JwtVerify(part, secret) ==
    IF Len(part) # 1 \/ part[1].c # "jwt" THEN Thrown("JsonWebTokenError")
    ELSE IF part[1].key # secret THEN Thrown("JsonWebTokenError")
    ELSE IF part[1].exp = "past" THEN Thrown("TokenExpiredError")
    ELSE Decoded(part[1].userId)

----------------------------------------------------------------------------
(* The persistence layer.  A lookup .eq('id', id).single() answers         *)
(* {data, error}: the row, or an error and no row when no row has the id.  *)
(* The layer itself can fail: report an error, or throw.                   *)

DbModes == {"ok", "error", "throw"}

Single(table, id, noRow, mode) ==
    LET row == IF id \in DOMAIN table THEN table[id] ELSE noRow
    IN [threw |-> mode = "throw",
        error |-> mode = "error" \/ (mode = "ok" /\ row = noRow),
        code |-> IF mode = "error" THEN "UNEXPECTED"
                 ELSE IF mode = "ok" /\ row = noRow THEN "PGRST116" ELSE "",
        data |-> IF mode = "ok" THEN row ELSE noRow]

\* what a stage did with the store: the table, the id asked for, how the layer answered
Lookup(name, id, r) ==
    [table |-> name, id |-> id,
     outcome |-> IF r.threw THEN "throw" ELSE IF r.error THEN r.code ELSE "row"]

----------------------------------------------------------------------------
(* authenticateToken                                                       *)

\* user.status !== 'active' negated
IsActiveAdminExempt(user) == user.status = "active" \/ user.role = "admin"

IsActive(user) == user.status = "active"

AuthCatchNoExpiry(name) ==
    IF name = "JsonWebTokenError"
    THEN Json(401, "Invalid token", "The provided token is malformed")
    ELSE Json(500, "Authentication failed", "Internal server error during authentication")

\* the catch block of authenticateToken
AuthCatch(name) ==
    IF name = "JsonWebTokenError"
    THEN Json(401, "Invalid token", "The provided token is malformed")
    ELSE IF name = "TokenExpiredError"
    THEN Json(401, "Token expired", "Please log in again")
    ELSE Json(500, "Authentication failed", "Internal server error during authentication")

LookupRejectedUnlessNotFound(r, noRow) == r.error /\ r.code # "PGRST116"

\* the lookup result is rejected: error || !user
LookupRejected(r, noRow) == r.error \/ r.data = noRow

\* what one run of a stage does: the response it writes (NoRes: none), the
\* req.user it leaves, how often it calls next(), whether it called jwt.verify,
\* the lookups it made
Outcome(response, user, nexts, verified, lookups) ==
    [res |-> response, user |-> user, nexts |-> nexts, verified |-> verified,
     lookups |-> lookups]

authenticateToken(authHeader, user0, dbMode) ==
    LET token == TokenOf(authHeader)
        decoded == JwtVerify(token.part, JWT_SECRET)
        r == Single(users, decoded.userId, NoRow, dbMode)
        looked == <<Lookup("users", decoded.userId, r)>>
    IN IF Falsy(token)
       THEN Outcome(Json(401, "Access token required",
                         "Please provide a valid authentication token"),
                    user0, 0, FALSE, <<>>)
       ELSE IF ~decoded.ok
       THEN Outcome(AuthCatch(decoded.name), user0, 0, TRUE, <<>>)
       ELSE IF r.threw
       THEN Outcome(AuthCatch("Error"), user0, 0, TRUE, looked)
       ELSE IF LookupRejected(r, NoRow)
       THEN Outcome(Json(401, "Invalid token", "User not found or token expired"),
                    user0, 0, TRUE, looked)
       ELSE IF ~IsActive(r.data)
       THEN Outcome(Json(403, "Account inactive", "Your account has been deactivated"),
                    user0, 0, TRUE, looked)
       ELSE Outcome(NoRes, r.data, 1, TRUE, looked)

----------------------------------------------------------------------------
(* requireRole(roles)                                                      *)

\* the roles argument of a route: an array of roles, or one role string
RoleList(items) == [isArray |-> TRUE, val |-> items]
RoleString(role) == [isArray |-> FALSE, val |-> <<role>>]

RolesArgs ==
    {RoleList(<<>>), RoleList(<<"admin">>), RoleList(<<"agency", "creator">>),
     RoleList(<<"admin", "agency">>), RoleList(<<"client">>),
     RoleString("admin"), RoleString("creator")}

\* Array.isArray(roles) ? roles : [roles]
AllowedRoles(roles) == IF roles.isArray THEN roles.val ELSE <<roles.val[1]>>

\* the rank a hierarchy would give the roles
Rank(role) ==
    CASE role = "admin" -> 4 [] role = "agency" -> 3 [] role = "creator" -> 2
      [] role = "client" -> 1 [] OTHER -> 0

IncludesOrOutranks(allowedRoles, userRole) ==
    \E i \in 1..Len(allowedRoles) : Rank(userRole) >= Rank(allowedRoles[i])

\* allowedRoles.includes(userRole)
Includes(allowedRoles, userRole) ==
    \E i \in 1..Len(allowedRoles) : allowedRoles[i] = userRole

\* !req.user
UserAbsentNever(user) == FALSE

UserAbsent(user) == user = NoUser

\* the 403 branch without its return
requireRoleFallsThrough(roles, user) ==
    IF UserAbsent(user)
    THEN Outcome(Json(401, "Authentication required",
                      "Please log in to access this resource"),
                 user, 0, FALSE, <<>>)
    ELSE IF ~Includes(AllowedRoles(roles), user.role)
    THEN Outcome(Json(403, "Insufficient permissions",
                      "This action requires one of the following roles"),
                 user, 1, FALSE, <<>>)
    ELSE Outcome(NoRes, user, 1, FALSE, <<>>)

requireRole(roles, user) ==
    IF UserAbsent(user)
    THEN Outcome(Json(401, "Authentication required",
                      "Please log in to access this resource"),
                 user, 0, FALSE, <<>>)
    ELSE IF ~Includes(AllowedRoles(roles), user.role)
    THEN Outcome(Json(403, "Insufficient permissions",
                      "This action requires one of the following roles"),
                 user, 0, FALSE, <<>>)
    ELSE Outcome(NoRes, user, 1, FALSE, <<>>)

----------------------------------------------------------------------------
(* requireWorkspaceAccess                                                  *)

\* userRole === 'admin'
IsAdminNever(user) == FALSE

IsAdmin(user) == user.role = "admin"

IsOwnerAlways(workspace, userId) == TRUE

\* workspace.owner_id === userId
IsOwner(workspace, userId) == workspace.owner_id = userId

\* workspace.workspace_members: the rows embedded by select('*, workspace_members(*)')
MembersOf(workspaceId) == {m \in workspace_members : m.workspace_id = workspaceId}

IsMemberAnyStatus(members, userId) ==
    \E m \in members : m.user_id = userId

\* workspace_members.some(member => member.user_id === userId && member.status === 'active')
IsMember(members, userId) ==
    \E m \in members : m.user_id = userId /\ m.status = "active"

\* client.workspace: the row embedded by select('*, workspace:workspaces(*)'), null
\* when the client has no workspace
WorkspaceOf(client) ==
    IF client.workspace_id \in DOMAIN workspaces THEN workspaces[client.workspace_id]
    ELSE NoWorkspace

ClientDeniedByOwnerOnly(user, client) == WorkspaceOf(client).owner_id # user.id

ClientDeniedUnlessCreator(user, client) ==
    IF user.role = "client" THEN client.user_id # user.id
    ELSE WorkspaceOf(client).owner_id # user.id /\ client.creator_id # user.id

\* the two comparisons of the client check: a client-role caller against
\* client.user_id, any other caller against client.workspace?.owner_id
ClientDenied(user, client) ==
    IF user.role = "client" THEN client.user_id # user.id
    ELSE WorkspaceOf(client).owner_id # user.id

AccessCatch == Json(500, "Access check failed",
                    "Internal server error during access verification")

requireWorkspaceAccess(workspaceId, clientId, user, wsMode, clMode) ==
    LET w == Single(workspaces, workspaceId, NoWorkspace, wsMode)
        c == Single(clients, clientId, NoClient, clMode)
        wsLooked == IF workspaceId # NoId THEN <<Lookup("workspaces", workspaceId, w)>>
                    ELSE <<>>
        clLooked == wsLooked \o <<Lookup("clients", clientId, c)>>
    IN \* req.user.id of an absent req.user throws a TypeError inside the try
       IF user = NoUser THEN Outcome(AccessCatch, user, 0, FALSE, <<>>)
       ELSE IF IsAdmin(user) THEN Outcome(NoRes, user, 1, FALSE, <<>>)
       ELSE IF workspaceId # NoId /\ w.threw
       THEN Outcome(AccessCatch, user, 0, FALSE, wsLooked)
       ELSE IF workspaceId # NoId /\ LookupRejected(w, NoWorkspace)
       THEN Outcome(Json(404, "Workspace not found",
                         "The requested workspace does not exist"),
                    user, 0, FALSE, wsLooked)
       ELSE IF workspaceId # NoId /\ ~IsOwner(w.data, user.id)
               /\ ~IsMember(MembersOf(w.data.id), user.id)
       THEN Outcome(Json(403, "Access denied",
                         "You do not have access to this workspace"),
                    user, 0, FALSE, wsLooked)
       ELSE IF clientId = NoId THEN Outcome(NoRes, user, 1, FALSE, wsLooked)
       ELSE IF c.threw THEN Outcome(AccessCatch, user, 0, FALSE, clLooked)
       ELSE IF LookupRejected(c, NoClient)
       THEN Outcome(Json(404, "Client not found",
                         "The requested client does not exist"),
                    user, 0, FALSE, clLooked)
       ELSE IF ClientDenied(user, c.data)
       THEN Outcome(Json(403, "Access denied",
                         IF user.role = "client"
                         THEN "You can only access your own client data"
                         ELSE "You do not have access to this client"),
                    user, 0, FALSE, clLooked)
       ELSE Outcome(NoRes, user, 1, FALSE, clLooked)

----------------------------------------------------------------------------
(* The store, as the schema constrains it (migration 20250812192215):      *)
(* owner_id and the members' user_id reference users, clients.user_id and  *)
(* clients.workspace_id are nullable references, a user has at most one    *)
(* membership row per workspace.                                           *)

UsersTable(first) ==
    [u \in (IF first = NoRow THEN UserIds \ {1} ELSE UserIds) |->
        IF u = 1 THEN first ELSE DefaultUser(u)]

MemberRows == [workspace_id : WorkspaceIds, user_id : UserIds, status : MemberStatuses]

DefaultWorkspaces == [w \in WorkspaceIds |-> [id |-> w, owner_id |-> 2]]
DefaultClients ==
    [c \in ClientIds |-> [id |-> c, user_id |-> NoId, creator_id |-> 2, workspace_id |-> 1]]

StoreOk ==
    /\ \A w \in DOMAIN workspaces : workspaces[w].owner_id \in DOMAIN users
    /\ \A m \in workspace_members :
          m.user_id \in DOMAIN users /\ m.workspace_id \in DOMAIN workspaces
    /\ \A c \in DOMAIN clients :
          /\ clients[c].user_id \in DOMAIN users \cup {NoId}
          /\ clients[c].creator_id \in DOMAIN users
          /\ clients[c].workspace_id \in DOMAIN workspaces \cup {NoId}

\* no route handler has run for the request
NoRoute == [name |-> ""]

\* the tables of the route handlers, empty
RoutesIdle ==
    /\ content_items = <<>>
    /\ content_comments = <<>>
    /\ social_accounts = {}
    /\ test_table = 0
    /\ served = 0
    /\ env = {}
    /\ issued = {}
    /\ saved_inspiration = <<>>
    /\ saving = <<>>
    /\ hashtag_packs = <<>>
    /\ route = NoRoute

\* the request before any stage has run
NoCall == [stage |-> "", authorization |-> NoHeader, roles |-> RoleList(<<>>),
           workspaceId |-> NoId, clientId |-> NoId,
           verified |-> FALSE, lookups |-> <<>>, nexts |-> 0]

Init ==
    /\ \E first \in {r \in UserRows : r.id = 1} \cup {NoRow} : users = UsersTable(first)
    /\ \/ /\ 1 \in DOMAIN users /\ users[1].status = "active"
          /\ \E o \in UserIds : workspaces = [w \in WorkspaceIds |-> [id |-> w, owner_id |-> o]]
          /\ \E m \in MemberRows : workspace_members \in {{}, {m}}
          /\ \E cu \in UserIds \cup {NoId}, cw \in WorkspaceIds \cup {NoId} :
                clients = [c \in ClientIds |->
                              [id |-> c, user_id |-> cu, creator_id |-> 1, workspace_id |-> cw]]
       \/ /\ ~(1 \in DOMAIN users /\ users[1].status = "active")
          /\ workspaces = DefaultWorkspaces
          /\ workspace_members = {}
          /\ clients = DefaultClients
    /\ reqUser = NoUser
    /\ res = NoRes
    /\ ran = <<>>
    /\ phase = "pending"
    /\ call = NoCall
    /\ RoutesIdle

----------------------------------------------------------------------------
(* The pipeline.  Express runs the stages a route lists, in order, each    *)
(* one when the one before it has called next(); a stage that writes a     *)
(* response ends the request.  The routes list the stages in the order     *)
(* authenticateToken, requireRole, requireWorkspaceAccess, any of them     *)
(* possibly left out.                                                      *)

StageOrder(stage) ==
    CASE stage = "authenticateToken" -> 1 [] stage = "requireRole" -> 2
      [] stage = "requireWorkspaceAccess" -> 3 [] OTHER -> 0

MayRun(stage) ==
    /\ phase = "pending"
    /\ \A i \in 1..Len(ran) : StageOrder(ran[i]) < StageOrder(stage)

\* a stage that also writes: it removes the membership rows it found inactive
ApplyPrunesMembers(stage, o, inputs) ==
    /\ reqUser' = o.user
    /\ res' = o.res
    /\ ran' = Append(ran, stage)
    /\ phase' = IF o.nexts > 0 THEN "pending" ELSE "responded"
    /\ call' = [inputs EXCEPT !.stage = stage, !.verified = o.verified,
                              !.lookups = o.lookups, !.nexts = o.nexts]
    /\ workspace_members' =
          IF o.lookups # <<>> /\ o.lookups[1].table = "workspaces"
          THEN {m \in workspace_members : m.status # "inactive"}
          ELSE workspace_members
    /\ UNCHANGED <<users, workspaces, clients, routeStore, route>>

\* the effect of one run of a stage on the request
Apply(stage, o, inputs) ==
    /\ reqUser' = o.user
    /\ res' = o.res
    /\ ran' = Append(ran, stage)
    \* Express runs the next stage exactly when this one called next()
    /\ phase' = IF o.nexts > 0 THEN "pending" ELSE "responded"
    /\ call' = [inputs EXCEPT !.stage = stage, !.verified = o.verified,
                              !.lookups = o.lookups, !.nexts = o.nexts]
    /\ UNCHANGED <<store, routeStore, route>>

StageAuthenticateToken ==
    /\ MayRun("authenticateToken")
    /\ \E authHeader \in Headers, dbMode \in DbModes :
          Apply("authenticateToken", authenticateToken(authHeader, reqUser, dbMode),
                [NoCall EXCEPT !.authorization = authHeader])

StageRequireRole ==
    /\ MayRun("requireRole")
    /\ \E roles \in RolesArgs :
          Apply("requireRole", requireRole(roles, reqUser), [NoCall EXCEPT !.roles = roles])

StageRequireWorkspaceAccess ==
    /\ MayRun("requireWorkspaceAccess")
    /\ \E workspaceId \in PathWorkspaceIds, clientId \in PathClientIds,
          wsMode \in DbModes, clMode \in DbModes :
          \* no lookup is made for an absent identifier
          /\ workspaceId = NoId => wsMode = "ok"
          /\ clientId = NoId => clMode = "ok"
          /\ Apply("requireWorkspaceAccess",
                requireWorkspaceAccess(workspaceId, clientId, reqUser, wsMode, clMode),
                [NoCall EXCEPT !.workspaceId = workspaceId, !.clientId = clientId])

\* the last stage of the route has called next(): the route's handler runs
RouteHandler ==
    /\ phase = "pending"
    /\ ran # <<>>
    /\ phase' = "handler"
    /\ UNCHANGED <<store, reqUser, res, ran, call, routeStore, route>>

\* the request is over; the next one arrives with a fresh req and res
NewRequest ==
    /\ phase \in {"responded", "handler"}
    /\ reqUser' = NoUser
    /\ res' = NoRes
    /\ ran' = <<>>
    /\ phase' = "pending"
    /\ call' = NoCall
    /\ route' = NoRoute
    /\ UNCHANGED <<store, routeStore>>

Next ==
    \/ StageAuthenticateToken
    \/ StageRequireRole
    \/ StageRequireWorkspaceAccess
    \/ RouteHandler
    \/ NewRequest

Spec == Init /\ [][Next]_vars

----------------------------------------------------------------------------
(* PUT /api/users/:id (src/src/routes/users.js): authenticateToken,        *)
(* validateObjectId, then the handler.  The handler's awaits are its       *)
(* lookups and its one update, requests are served one at a time, so the   *)
(* whole chain is one action.                                              *)

NumAccounts == 2
Accounts == 1..NumAccounts

\* a string of a request body, as far as trim() and toLowerCase() look at it:
\* its trimmed lower-case text, whether white space surrounds it, whether it
\* has capitals
Str(text, pad, caps) == [text |-> text, pad |-> pad, caps |-> caps]
Trim(s) == [s EXCEPT !.pad = FALSE]
ToLowerCase(s) == [s EXCEPT !.caps = FALSE]

\* if (value): a string is truthy unless it is empty
Truthy(s) == s.text # "" \/ s.pad
TruthyText(t) == t # ""

\* the address of account u
EmailOf(u) == Str(ToString(u), FALSE, FALSE)

AccountRow(u) ==
    [id |-> u, role |-> RoleOrder[((u - 1) % 4) + 1], status |-> "active",
     first_name |-> Str("a", FALSE, FALSE), email |-> EmailOf(u)]

\* the :id of the path: NoId stands for a segment that is no UUID, the id after
\* the last account for a UUID no row carries
PathUserIds == {NoId} \cup Accounts \cup {NumAccounts + 1}

\* Authorization: Bearer <the token issued to account u>
BearerOf(u) == Header(<<Word("Bearer"), SP, Jwt(JWT_SECRET, "future", u)>>)

\* the callers: no credential, or the token of an account or of no account
CallerHeaders == {NoHeader} \cup {BearerOf(u) : u \in Accounts \cup {NumAccounts + 1}}

\* req.body: the fields it supplies
UserBodies ==
    {<<>>,
     [firstName |-> Str("b", TRUE, FALSE)],
     [firstName |-> Str("a", FALSE, FALSE)],
     [role |-> "admin"],
     [role |-> "", status |-> "", firstName |-> Str("b", FALSE, FALSE)],
     [status |-> "suspended", firstName |-> Str("b", FALSE, FALSE)],
     [role |-> "client", status |-> "active"],
     [role |-> "root"],
     [email |-> EmailOf(1)],
     [email |-> Str(ToString(1), FALSE, TRUE), firstName |-> Str("b", FALSE, FALSE)]}

\* const { firstName, email, role, status } = req.body
Supplied(body, field) == field \in DOMAIN body
TruthyField(body, field) ==
    /\ Supplied(body, field)
    /\ IF field \in {"role", "status"} THEN TruthyText(body[field]) ELSE Truthy(body[field])

\* validateObjectId: param('id').isUUID()
IsUUID(id) == id # NoId
ValidationFailed == Json(400, "Validation failed", "ID must be a valid UUID")

\* the error handler of server.js, reached through next(error)
InternalServerError == Json(500, "Internal Server Error", "")

\* res.json({ success: true, ... })
Success(m) == Json(200, "", m)

\* id !== currentUserId && currentUserRole !== 'admin'
NotOwnProfile(id, user) == id # user.id /\ user.role # "admin"

AdminFieldsDeniedRoleOnly(body, user) == TruthyField(body, "role") /\ user.role # "admin"

\* (role || status) && currentUserRole !== 'admin'
AdminFieldsDenied(body, user) ==
    (TruthyField(body, "role") \/ TruthyField(body, "status")) /\ user.role # "admin"

\* .eq('email', email).neq('id', id).single(): another row carries the address
EmailTaken(table, email, id) ==
    Cardinality({u \in DOMAIN table : u # id /\ table[u].email = email}) = 1

\* updateData
UpdateData(body, user) ==
    [f \in {g \in {"firstName", "email"} : TruthyField(body, g)}
           \cup (IF user.role = "admin"
                 THEN {g \in {"role", "status"} : TruthyField(body, g)} ELSE {}) |->
        CASE f = "firstName" -> Trim(body[f])
          [] f = "email" -> Trim(ToLowerCase(body[f]))
          [] OTHER -> body[f]]

\* the row after .update(updateData)
Updated(row, data) ==
    [row EXCEPT !.first_name = IF "firstName" \in DOMAIN data THEN data.firstName ELSE @,
                !.email = IF "email" \in DOMAIN data THEN data.email ELSE @,
                !.role = IF "role" \in DOMAIN data THEN data.role ELSE @,
                !.status = IF "status" \in DOMAIN data THEN data.status ELSE @]

\* the constraints of the users table: the CHECKs on role and status, UNIQUE(email)
UsersConstraints(table) ==
    /\ \A u \in DOMAIN table : table[u].role \in Roles /\ table[u].status \in Statuses
    /\ \A u, v \in DOMAIN table : table[u].email = table[v].email => u = v

\* what the handler answers and the users table it leaves
Handled(response, table) == [res |-> response, users |-> table]

PutUser(id, user, body, fetchMode, checkMode, updateMode) ==
    LET existing == Single(users, id, NoRow, fetchMode)
        updated == [users EXCEPT ![id] = Updated(@, UpdateData(body, user))]
    IN IF NotOwnProfile(id, user)
       THEN Handled(Json(403, "Access denied", "You can only update your own profile"), users)
       ELSE IF AdminFieldsDenied(body, user)
       THEN Handled(Json(403, "Access denied",
                         "Only administrators can change user roles and status"), users)
       ELSE IF existing.threw
       THEN Handled(InternalServerError, users)
       ELSE IF LookupRejected(existing, NoRow)
       THEN Handled(Json(404, "User not found", "The requested user does not exist"), users)
       ELSE IF TruthyField(body, "email") /\ body.email # existing.data.email
               /\ checkMode = "throw"
       THEN Handled(InternalServerError, users)
       ELSE IF TruthyField(body, "email") /\ body.email # existing.data.email
               /\ checkMode = "ok" /\ EmailTaken(users, body.email, id)
       THEN Handled(Json(409, "Email already exists",
                         "Another user is already using this email address"), users)
       ELSE IF updateMode # "ok" \/ ~UsersConstraints(updated)
       THEN Handled(InternalServerError, users)
       ELSE Handled(Success("User updated successfully"), updated)

\* the failures of the persistence layer during one request: none, or one call fails
Faults ==
    {f \in [auth : DbModes, fetch : DbModes, check : DbModes, update : DbModes] :
        Cardinality({k \in DOMAIN f : f[k] # "ok"}) <= 1}

FullBody == [email |-> Str(ToString(1), FALSE, TRUE), firstName |-> Str("b", FALSE, FALSE)]

\* router.put('/:id', authenticateToken, validateObjectId, async (req, res, next) => ...)
UsersPut ==
    /\ phase = "pending"
    /\ route = NoRoute
    /\ \E authHeader \in CallerHeaders, id \in PathUserIds, body \in UserBodies, f \in Faults :
          /\ (body # FullBody \/ id # 1) => \A k \in DOMAIN f : f[k] = "ok"
          /\ LET a == authenticateToken(authHeader, NoUser, f.auth)
                 h == IF a.nexts = 0 THEN Handled(a.res, users)
                      ELSE IF ~IsUUID(id) THEN Handled(ValidationFailed, users)
                      ELSE PutUser(id, a.user, body, f.fetch, f.check, f.update)
             IN /\ users' = h.users
                /\ res' = h.res
                /\ reqUser' = a.user
                /\ route' = [name |-> "PUT /api/users/:id", authorization |-> authHeader,
                             id |-> id, body |-> body, faults |-> f]
          /\ phase' = "responded"
          /\ UNCHANGED <<workspaces, workspace_members, clients, ran, call, routeStore>>

OwnAccountNever(id, user) == FALSE

\* id === currentUserId
OwnAccount(id, user) == id = user.id

\* the store after the users row id is deleted: the rows that reference it
\* go with it (ON DELETE CASCADE) or lose the reference (ON DELETE SET NULL)
UserDeleted(id) ==
    LET keptSpaces == {w \in DOMAIN workspaces : workspaces[w].owner_id # id}
        keptClients == {c \in DOMAIN clients :
                           /\ clients[c].creator_id # id
                           /\ clients[c].workspace_id \in keptSpaces \cup {NoId}}
        keptItems == {i \in DOMAIN content_items :
                         /\ content_items[i].creator_id # id
                         /\ content_items[i].client_id \in keptClients \cup {NoId}}
    IN [users |-> [u \in DOMAIN users \ {id} |-> users[u]],
        workspaces |-> [w \in keptSpaces |-> workspaces[w]],
        workspace_members |->
            {m \in workspace_members : m.user_id # id /\ m.workspace_id \in keptSpaces},
        clients |-> [c \in keptClients |->
                        [clients[c] EXCEPT !.user_id = IF @ = id THEN NoId ELSE @]],
        content_items |-> [i \in keptItems |-> content_items[i]],
        content_comments |->
            SelectSeq(content_comments,
                      LAMBDA c : c.user_id # id /\ c.content_item_id \in keptItems),
        social_accounts |->
            {r \in social_accounts : r.user_id # id /\ r.client_id \in keptClients \cup {NoId}}]

\* the store as it is
StoreKept ==
    [users |-> users, workspaces |-> workspaces, workspace_members |-> workspace_members,
     clients |-> clients, content_items |-> content_items,
     content_comments |-> content_comments, social_accounts |-> social_accounts]

\* what the handler answers and the store it leaves
Deleted(response, after) == [res |-> response, store |-> after]

\* router.delete('/:id') handler
DeleteUser(id, user, fetchMode, deleteMode) ==
    LET existing == Single(users, id, NoRow, fetchMode)
    IN IF OwnAccount(id, user)
       THEN Deleted(Json(400, "Cannot delete own account",
                         "You cannot delete your own account"), StoreKept)
       ELSE IF existing.threw
       THEN Deleted(InternalServerError, StoreKept)
       ELSE IF LookupRejected(existing, NoRow)
       THEN Deleted(Json(404, "User not found", "The requested user does not exist"),
                    StoreKept)
       ELSE IF deleteMode # "ok"
       THEN Deleted(InternalServerError, StoreKept)
       ELSE Deleted(Success("User deleted successfully"), UserDeleted(id))

\* router.delete('/:id', authenticateToken, requireRole(['admin']), validateObjectId, ...)
UsersDelete ==
    /\ phase = "pending"
    /\ route = NoRoute
    /\ \E authHeader \in CallerHeaders, id \in PathUserIds, f \in Faults :
          /\ f.check = "ok"
          /\ id # NumAccounts => \A k \in DOMAIN f : f[k] = "ok"
          /\ LET a == authenticateToken(authHeader, NoUser, f.auth)
                 r == requireRole(RoleList(<<"admin">>), a.user)
                 h == IF a.nexts = 0 THEN Deleted(a.res, StoreKept)
                      ELSE IF r.nexts = 0 THEN Deleted(r.res, StoreKept)
                      ELSE IF ~IsUUID(id) THEN Deleted(ValidationFailed, StoreKept)
                      ELSE DeleteUser(id, a.user, f.fetch, f.update)
             IN /\ users' = h.store.users
                /\ workspaces' = h.store.workspaces
                /\ workspace_members' = h.store.workspace_members
                /\ clients' = h.store.clients
                /\ content_items' = h.store.content_items
                /\ content_comments' = h.store.content_comments
                /\ social_accounts' = h.store.social_accounts
                /\ res' = h.res
                /\ reqUser' = a.user
                /\ route' = [name |-> "DELETE /api/users/:id", authorization |-> authHeader,
                             id |-> id, body |-> <<>>, faults |-> f]
          /\ phase' = "responded"
          /\ UNCHANGED <<ran, call, test_table, served, env, issued, saved_inspiration, saving,
                         hashtag_packs>>

InitUsers ==
    /\ users = [u \in Accounts |-> AccountRow(u)]
    /\ workspaces = DefaultWorkspaces
    /\ workspace_members = {}
    /\ clients = DefaultClients
    /\ reqUser = NoUser
    /\ res = NoRes
    /\ ran = <<>>
    /\ phase = "pending"
    /\ call = NoCall
    /\ RoutesIdle

NextUsers ==
    \/ UsersPut
    \/ UsersDelete
    \/ NewRequest

SpecUsers == InitUsers /\ [][NextUsers]_vars

----------------------------------------------------------------------------
(* The content routes (src/src/routes/content.js): POST /, PUT /:id and    *)
(* POST /:id/comments, each behind authenticateToken and its validator.    *)
(* The rows carry the columns the handlers test or write; updated_at and   *)
(* the text columns other than title are left out.                         *)

MaxRequests == 1

\* one account per role: 1 admin, 2 agency, 3 creator, 4 client
RoleAccounts == 1..Len(RoleOrder)

\* ids are UUIDs: the id of a client row is the id of no user
ClientKey == Len(RoleOrder) + 1

ItemIds == 1..(MaxRequests + 1)

ContentStatuses == {"draft", "review", "approved", "scheduled", "published", "rejected"}
CommentTypes == {"comment", "approval", "rejection", "revision"}

NoItem == [id |-> NoId, title |-> Str("", FALSE, FALSE), status |-> "none",
           client_id |-> NoId, creator_id |-> NoId, created_at |-> "none"]

Item(id, title, status, clientId, creatorId, createdAt) ==
    [id |-> id, title |-> title, status |-> status, client_id |-> clientId,
     creator_id |-> creatorId, created_at |-> createdAt]

\* uuid_generate_v4(): an id no row carries
FreshId(taken) == CHOOSE i \in ItemIds \ taken : \A j \in ItemIds \ taken : i <= j

\* the constraints of content_items: title NOT NULL, the CHECK on status, the
\* references to clients and users
ItemsConstraints(table) ==
    \A i \in DOMAIN table :
        /\ table[i].status \in ContentStatuses
        /\ table[i].client_id \in DOMAIN clients \cup {NoId}
        /\ table[i].creator_id \in DOMAIN users

\* what a content handler answers and the tables it leaves
ContentHandled(response, items, comments) ==
    [res |-> response, items |-> items, comments |-> comments]

ContentKept(response) == ContentHandled(response, content_items, content_comments)

\* validateContentCreation: title, platform, contentType, the optional status
CreationValid(body) ==
    /\ Supplied(body, "title") /\ Trim(body.title).text # ""
    /\ Supplied(body, "platform")
    /\ body.platform \in {"tiktok", "instagram", "youtube", "linkedin", "twitter"}
    /\ Supplied(body, "contentType")
    /\ body.contentType \in {"video", "image", "carousel", "story", "post"}
    /\ Supplied(body, "status") =>
          body.status \in {"draft", "review", "approved", "scheduled", "published"}

\* a body that passes the validator, and what requests add to it
Creation == [title |-> Str("a", TRUE, FALSE), platform |-> "tiktok", contentType |-> "video"]
With(body, field, value) ==
    [f \in DOMAIN body \cup {field} |-> IF f = field THEN value ELSE body[f]]

CreationBodies ==
    {Creation, [platform |-> "tiktok", contentType |-> "video"],
     With(Creation, "platform", "facebook"), With(Creation, "creator_id", 1),
     With(Creation, "clientId", ClientKey), With(Creation, "clientId", ClientKey + 1)}
    \cup {With(Creation, "status", st) : st \in ContentStatuses}

\* router.post('/') handler
PostContent(user, body, clientMode, insertMode) ==
    LET clientId == IF Supplied(body, "clientId") THEN body.clientId ELSE NoId
        status == IF Supplied(body, "status") THEN body.status ELSE "draft"
        client == Single(clients, clientId, NoClient, clientMode)
        id == FreshId(DOMAIN content_items)
        inserted == [i \in DOMAIN content_items \cup {id} |->
                        IF i = id
                        THEN Item(id, Trim(body.title), status, clientId, user.id, "now")
                        ELSE content_items[i]]
    IN IF clientId # NoId /\ client.threw
       THEN ContentKept(InternalServerError)
       ELSE IF clientId # NoId /\ LookupRejected(client, NoClient)
       THEN ContentKept(Json(404, "Client not found", "The specified client does not exist"))
       ELSE IF clientId # NoId /\ client.data.creator_id # user.id /\ user.role # "admin"
       THEN ContentKept(Json(403, "Access denied", "You do not have access to this client"))
       ELSE IF insertMode # "ok" \/ ~ItemsConstraints(inserted)
       THEN ContentKept(InternalServerError)
       ELSE ContentHandled(Json(201, "", "Content item created successfully"),
                           inserted, content_comments)

\* req.body of PUT /:id: the columns it names
UpdateBodies ==
    {<<>>, [title |-> Str("b", FALSE, FALSE)], [status |-> "archived"],
     [client_id |-> ClientKey], [client_id |-> ClientKey + 1],
     [id |-> MaxRequests + 1, creator_id |-> 1, created_at |-> "forged",
      title |-> Str("b", FALSE, FALSE)]}
    \cup {[status |-> st] : st \in ContentStatuses}

ContentUpdateDataKeepsCreator(body) == [f \in DOMAIN body \ {"id", "created_at"} |-> body[f]]

\* updateData: { ...updates } without id, creator_id and created_at
ContentUpdateData(body) ==
    [f \in DOMAIN body \ {"id", "creator_id", "created_at"} |-> body[f]]

\* the row after .update(updateData)
ItemUpdated(row, data) == [f \in DOMAIN row |-> IF f \in DOMAIN data THEN data[f] ELSE row[f]]

\* router.put('/:id') handler
PutContent(id, user, body, fetchMode, updateMode) ==
    LET existing == Single(content_items, id, NoItem, fetchMode)
        updated == [content_items EXCEPT ![id] = ItemUpdated(@, ContentUpdateData(body))]
    IN IF existing.threw
       THEN ContentKept(InternalServerError)
       ELSE IF LookupRejected(existing, NoItem)
       THEN ContentKept(Json(404, "Content not found",
                             "The requested content item does not exist"))
       ELSE IF user.role = "client" /\ existing.data.client_id # user.id
       THEN ContentKept(Json(403, "Access denied", "You can only update your own content"))
       ELSE IF user.role \in {"creator", "agency"} /\ existing.data.creator_id # user.id
       THEN ContentKept(Json(403, "Access denied", "You can only update content you created"))
       ELSE IF updateMode # "ok" \/ ~ItemsConstraints(updated)
       THEN ContentKept(InternalServerError)
       ELSE ContentHandled(Success("Content item updated successfully"),
                           updated, content_comments)

DeleteDeniedToClientsOnly(item, user) == user.role = "client" /\ item.creator_id # user.id

\* userRole !== 'admin' && existingItem.creator_id !== userId
DeleteDenied(item, user) == user.role # "admin" /\ item.creator_id # user.id

\* the rows left after .delete().eq('id', id)
Without(table, id) == [i \in DOMAIN table \ {id} |-> table[i]]

\* the comments left when the items in gone are deleted: ON DELETE CASCADE
Cascaded(comments, gone) ==
    SelectSeq(comments, LAMBDA c : c.content_item_id \notin gone)

\* router.delete('/:id') handler
DeleteContent(id, user, fetchMode, deleteMode) ==
    LET existing == Single(content_items, id, NoItem, fetchMode)
    IN IF existing.threw
       THEN ContentKept(InternalServerError)
       ELSE IF LookupRejected(existing, NoItem)
       THEN ContentKept(Json(404, "Content not found",
                             "The requested content item does not exist"))
       ELSE IF DeleteDenied(existing.data, user)
       THEN ContentKept(Json(403, "Access denied", "You can only delete content you created"))
       ELSE IF deleteMode # "ok"
       THEN ContentKept(InternalServerError)
       ELSE ContentHandled(Success("Content item deleted successfully"),
                           Without(content_items, id), Cascaded(content_comments, {id}))

\* req.body of POST /:id/comments
CommentBodies ==
    {<<>>, [comment |-> Str("", TRUE, FALSE)], [comment |-> Str("c", TRUE, FALSE)],
     [comment |-> Str("c", FALSE, FALSE), type |-> "review"]}
    \cup {[comment |-> Str("c", FALSE, FALSE), type |-> t] : t \in CommentTypes}

\* contentItem.creator_id === userId || contentItem.client_id === userId || admin
HasAccess(item, user) ==
    item.creator_id = user.id \/ item.client_id = user.id \/ user.role = "admin"

\* router.post('/:id/comments') handler
PostComment(id, user, body, fetchMode, insertMode, statusMode) ==
    LET type == IF Supplied(body, "type") THEN body.type ELSE "comment"
        existing == Single(content_items, id, NoItem, fetchMode)
        commented == Append(content_comments,
                            [content_item_id |-> id, user_id |-> user.id,
                             comment |-> Trim(body.comment), type |-> type])
        restated == IF type = "approval" /\ statusMode = "ok"
                    THEN [content_items EXCEPT ![id].status = "approved"]
                    ELSE IF type = "rejection" /\ statusMode = "ok"
                    THEN [content_items EXCEPT ![id].status = "draft"]
                    ELSE content_items
    IN IF ~TruthyField(body, "comment") \/ Trim(body.comment).text = ""
       THEN ContentKept(Json(400, "Comment required", "Comment text cannot be empty"))
       ELSE IF existing.threw
       THEN ContentKept(InternalServerError)
       ELSE IF LookupRejected(existing, NoItem)
       THEN ContentKept(Json(404, "Content not found",
                             "The requested content item does not exist"))
       ELSE IF ~HasAccess(existing.data, user)
       THEN ContentKept(Json(403, "Access denied",
                             "You do not have permission to comment on this content"))
       ELSE IF insertMode # "ok" \/ type \notin CommentTypes
       THEN ContentKept(InternalServerError)
       ELSE IF type \in {"approval", "rejection"} /\ statusMode = "throw"
       THEN ContentHandled(InternalServerError, content_items, commented)
       ELSE ContentHandled(Json(201, "", "Comment added successfully"), restated, commented)

\* the failures of the persistence layer during one content request
ContentFaults ==
    {f \in [auth : DbModes, fetch : DbModes, write : DbModes, status : DbModes] :
        Cardinality({k \in DOMAIN f : f[k] # "ok"}) <= 1}

NoFault(f) == \A k \in DOMAIN f : f[k] = "ok"

ContentCallers == {NoHeader} \cup {BearerOf(u) : u \in RoleAccounts}

\* the :id of a content path: no UUID, the id of a row, an id of no row
PathItemIds == {NoId} \cup DOMAIN content_items \cup {MaxRequests + 2}

\* a chain authenticateToken, validator, handler has served the request
ContentServed(name, authHeader, id, body, f, a, h) ==
    /\ content_items' = h.items
    /\ content_comments' = h.comments
    /\ res' = h.res
    /\ reqUser' = a.user
    /\ route' = [name |-> name, authorization |-> authHeader, id |-> id, body |-> body,
                 faults |-> f]
    /\ served' = served + 1
    /\ phase' = "responded"
    /\ UNCHANGED <<store, ran, call, social_accounts, test_table, env, issued,
                   saved_inspiration, saving, hashtag_packs>>

ContentPost ==
    /\ phase = "pending"
    /\ route = NoRoute
    /\ served < MaxRequests
    /\ \E authHeader \in ContentCallers, body \in CreationBodies, f \in ContentFaults :
          /\ f.status = "ok"
          /\ body # With(Creation, "clientId", ClientKey) => NoFault(f)
          /\ LET a == authenticateToken(authHeader, NoUser, f.auth)
                 h == IF a.nexts = 0 THEN ContentKept(a.res)
                      ELSE IF ~CreationValid(body) THEN ContentKept(ValidationFailed)
                      ELSE PostContent(a.user, body, f.fetch, f.write)
             IN ContentServed("POST /api/content", authHeader, NoId, body, f, a, h)

ContentPut ==
    /\ phase = "pending"
    /\ route = NoRoute
    /\ served < MaxRequests
    /\ \E authHeader \in ContentCallers, id \in PathItemIds, body \in UpdateBodies,
          f \in ContentFaults :
          /\ f.status = "ok"
          /\ body # [status |-> "review"] => NoFault(f)
          /\ LET a == authenticateToken(authHeader, NoUser, f.auth)
                 h == IF a.nexts = 0 THEN ContentKept(a.res)
                      ELSE IF ~IsUUID(id) THEN ContentKept(ValidationFailed)
                      ELSE PutContent(id, a.user, body, f.fetch, f.write)
             IN ContentServed("PUT /api/content/:id", authHeader, id, body, f, a, h)

ContentDelete ==
    /\ phase = "pending"
    /\ route = NoRoute
    /\ served < MaxRequests
    /\ \E authHeader \in ContentCallers, id \in PathItemIds, f \in ContentFaults :
          /\ f.status = "ok"
          /\ LET a == authenticateToken(authHeader, NoUser, f.auth)
                 h == IF a.nexts = 0 THEN ContentKept(a.res)
                      ELSE IF ~IsUUID(id) THEN ContentKept(ValidationFailed)
                      ELSE DeleteContent(id, a.user, f.fetch, f.write)
             IN ContentServed("DELETE /api/content/:id", authHeader, id, <<>>, f, a, h)

ContentComment ==
    /\ phase = "pending"
    /\ route = NoRoute
    /\ served < MaxRequests
    /\ \E authHeader \in ContentCallers, id \in PathItemIds, body \in CommentBodies,
          f \in ContentFaults :
          /\ body # [comment |-> Str("c", FALSE, FALSE), type |-> "rejection"] => NoFault(f)
          /\ LET a == authenticateToken(authHeader, NoUser, f.auth)
                 h == IF a.nexts = 0 THEN ContentKept(a.res)
                      ELSE IF ~IsUUID(id) THEN ContentKept(ValidationFailed)
                      ELSE PostComment(id, a.user, body, f.fetch, f.write, f.status)
             IN ContentServed("POST /api/content/:id/comments", authHeader, id, body, f, a, h)

\* the store holds no content item, or one the agency account or the client
\* account made earlier
InitContent ==
    /\ users = [u \in RoleAccounts |-> AccountRow(u)]
    /\ workspaces = DefaultWorkspaces
    /\ workspace_members = {}
    /\ clients = [c \in {ClientKey} |->
                     [id |-> c, user_id |-> Len(RoleOrder), creator_id |-> 2,
                      workspace_id |-> 1]]
    /\ reqUser = NoUser
    /\ res = NoRes
    /\ ran = <<>>
    /\ phase = "pending"
    /\ call = NoCall
    /\ content_comments = <<>>
    /\ social_accounts = {}
    /\ test_table = 0
    /\ served = 0
    /\ env = {}
    /\ issued = {}
    /\ saved_inspiration = <<>>
    /\ saving = <<>>
    /\ hashtag_packs = <<>>
    /\ route = NoRoute
    /\ \/ content_items = <<>>
       \/ \E st \in ContentStatuses, c \in {NoId, ClientKey}, by \in {2, Len(RoleOrder)} :
             content_items =
                [i \in {1} |-> Item(1, Str("a", FALSE, FALSE), st, c, by, "earlier")]

NextContent ==
    \/ ContentPost
    \/ ContentPut
    \/ ContentDelete
    \/ ContentComment
    \/ NewRequest

SpecContent == InitContent /\ [][NextContent]_vars

----------------------------------------------------------------------------
(* The social routes (src/src/routes/social.js): GET /connect/:platform    *)
(* behind authenticateToken, GET /callback/:platform and POST /write       *)
(* behind nothing.  env is process.env, the credentials it defines;        *)
(* issued holds the authorization URLs the connect route has handed to     *)
(* browsers.                                                               *)

supportedPlatforms == <<"tiktok", "instagram", "youtube", "linkedin", "twitter", "facebook">>

\* the :platform of a path: an accepted one, or another
PathPlatforms == {supportedPlatforms[i] : i \in 1..Len(supportedPlatforms)} \cup {"snapchat"}

Credentials == {"TIKTOK_CLIENT_KEY", "META_APP_ID", "YOUTUBE_CLIENT_ID", "LINKEDIN_CLIENT_ID"}

\* the state query parameter, a string: nothing, the base64 of a JSON object
\* { userId, clientId }, the base64 of the JSON null, or of no JSON at all
StateString(kind, userId, clientId) == [kind |-> kind, userId |-> userId, clientId |-> clientId]
NoState == StateString("", NoId, NoId)

\* Buffer.from(JSON.stringify({ userId, clientId })).toString('base64')
EncodeState(userId, clientId) == StateString("object", userId, clientId)

\* JSON.parse(Buffer.from(state, 'base64').toString())
DecodeState(state) ==
    IF state.kind = "object"
    THEN [threw |-> FALSE, isNull |-> FALSE, userId |-> state.userId, clientId |-> state.clientId]
    ELSE [threw |-> state.kind # "null", isNull |-> state.kind = "null",
          userId |-> NoId, clientId |-> NoId]

NoUrl == [platform |-> "", state |-> NoState]

\* the URL of the platform's authorization page: where it redirects back to,
\* and the state it hands back
AuthUrl(platform, state) == [platform |-> platform, state |-> state]

generateOAuthUrl(platform, userId, clientId) ==
    CASE platform = "tiktok" ->
            IF "TIKTOK_CLIENT_KEY" \notin env THEN NoUrl
            ELSE AuthUrl(platform, EncodeState(userId, clientId))
      [] platform \in {"instagram", "facebook"} ->
            IF "META_APP_ID" \notin env THEN NoUrl
            ELSE AuthUrl(platform, EncodeState(userId, clientId))
      [] platform = "youtube" ->
            IF "YOUTUBE_CLIENT_ID" \notin env THEN NoUrl
            ELSE AuthUrl(platform, EncodeState(userId, clientId))
      [] platform = "linkedin" ->
            IF "LINKEDIN_CLIENT_ID" \notin env THEN NoUrl
            ELSE AuthUrl(platform, EncodeState(userId, clientId))
      [] platform = "twitter" -> NoUrl
      [] OTHER -> NoUrl

\* what the platform answers to the token request and to the profile request
NoToken == [access_token |-> ""]
NoProfile == [id |-> "", username |-> ""]

\* exchangeCodeForToken: answered says whether the platform's token endpoint
\* answered the POST; a request that fails is caught and gives null
exchangeCodeForToken(platform, code, answered) ==
    CASE platform \in {"tiktok", "instagram", "facebook", "youtube"} ->
            IF answered THEN [access_token |-> "token"] ELSE NoToken
      [] OTHER -> NoToken

\* getPlatformProfile
getPlatformProfile(platform, accessToken, answered) ==
    CASE platform \in {"tiktok", "instagram", "youtube"} ->
            IF answered THEN [id |-> "account", username |-> "name"] ELSE NoProfile
      [] OTHER -> NoProfile

\* what a social handler answers and what it leaves
SocialHandled(response, accounts, rows, urls, queries) ==
    [res |-> response, accounts |-> accounts, rows |-> rows, urls |-> urls,
     queries |-> queries]

\* router.get('/connect/:platform') handler
GetConnect(platform, clientId, user, clientMode) ==
    LET client == Single(clients, clientId, NoClient, clientMode)
        asked == IF clientId # NoId THEN 1 ELSE 0
        oauthUrl == generateOAuthUrl(platform, user.id, clientId)
    IN IF ~Includes(supportedPlatforms, platform)
       THEN SocialHandled(Json(400, "Unsupported platform", "Platform must be one of"),
                          social_accounts, test_table, issued, 0)
       ELSE IF clientId # NoId /\ client.threw
       THEN SocialHandled(InternalServerError, social_accounts, test_table, issued, asked)
       ELSE IF clientId # NoId /\ LookupRejected(client, NoClient)
       THEN SocialHandled(Json(404, "Client not found", "The specified client does not exist"),
                          social_accounts, test_table, issued, asked)
       ELSE IF clientId # NoId /\ client.data.creator_id # user.id /\ user.role # "admin"
       THEN SocialHandled(Json(403, "Access denied", "You do not have access to this client"),
                          social_accounts, test_table, issued, asked)
       ELSE IF oauthUrl = NoUrl
       THEN SocialHandled(Json(500, "OAuth configuration missing",
                               "OAuth credentials not configured"),
                          social_accounts, test_table, issued, asked)
       ELSE SocialHandled(Success("Redirect to this URL to connect your account"),
                          social_accounts, test_table, issued \cup {oauthUrl}, asked)

\* res.redirect(FRONTEND_URL/dashboard?error=...) and ...?connected=<platform>
Redirect(error, connected) == Json(302, error, connected)

\* the row the callback upserts
AccountRowOf(userId, clientId, platform, profile) ==
    [user_id |-> userId, client_id |-> clientId, platform |-> platform,
     account_id |-> profile.id, username |-> profile.username, status |-> "active"]

\* .upsert(row, { onConflict: 'user_id,platform,account_id' })
Upsert(table, row) ==
    {r \in table : <<r.user_id, r.platform, r.account_id>> #
                   <<row.user_id, row.platform, row.account_id>>} \cup {row}

\* the constraints of social_accounts: NOT NULL and the references of user_id,
\* the reference of client_id, the CHECK on platform
AccountsConstraints(table) ==
    \A r \in table :
        /\ r.user_id \in DOMAIN users
        /\ r.client_id \in DOMAIN clients \cup {NoId}
        /\ Includes(supportedPlatforms, r.platform)

\* router.get('/callback/:platform') handler
GetCallback(platform, q, tokenAnswered, profileAnswered, saveMode) ==
    LET stateData == DecodeState(q.state)
        tokenData == exchangeCodeForToken(platform, q.code, tokenAnswered)
        profileData == getPlatformProfile(platform, tokenData.access_token, profileAnswered)
        saved == Upsert(social_accounts,
                        AccountRowOf(stateData.userId, stateData.clientId, platform,
                                     profileData))
    IN IF q.error # ""
       THEN SocialHandled(Redirect("oauth_cancelled", ""), social_accounts, test_table, issued, 0)
       ELSE IF q.code = "" \/ q.state = NoState
       THEN SocialHandled(Redirect("oauth_invalid", ""), social_accounts, test_table, issued, 0)
       ELSE IF stateData.threw
       THEN SocialHandled(Redirect("oauth_invalid_state", ""),
                          social_accounts, test_table, issued, 0)
       ELSE IF stateData.isNull
       THEN SocialHandled(Redirect("oauth_failed", ""), social_accounts, test_table, issued, 0)
       ELSE IF tokenData = NoToken
       THEN SocialHandled(Redirect("oauth_token_failed", ""),
                          social_accounts, test_table, issued, 0)
       ELSE IF profileData = NoProfile
       THEN SocialHandled(Redirect("oauth_profile_failed", ""),
                          social_accounts, test_table, issued, 0)
       ELSE IF saveMode = "throw"
       THEN SocialHandled(Redirect("oauth_failed", ""), social_accounts, test_table, issued, 1)
       ELSE IF saveMode = "error" \/ ~AccountsConstraints(saved)
       THEN SocialHandled(Redirect("save_failed", ""), social_accounts, test_table, issued, 1)
       ELSE SocialHandled(Redirect("", platform), saved, test_table, issued, 1)

\* how the insert into test_table can end: the row is stored, the table is not
\* there (42P01), another error is reported, the call throws
WriteModes == {"ok", "undefined_table", "error", "throw"}

\* router.post('/write') handler
PostWrite(mode) ==
    CASE mode = "ok" ->
            SocialHandled(Success("Database write operation successful"),
                          social_accounts, test_table + 1, issued, 1)
      [] mode = "undefined_table" ->
            SocialHandled(Success("Database write test completed (table not found)"),
                          social_accounts, test_table, issued, 1)
      [] OTHER ->
            SocialHandled(Json(500, "", "Database write operation failed"),
                          social_accounts, test_table, issued, 1)

\* a flow takes one request more than a single call
MaxSocialRequests == MaxRequests + 1

\* a social route has served the request; reached says whether its handler ran
SocialServed(r, user, reached, h) ==
    /\ social_accounts' = h.accounts
    /\ test_table' = h.rows
    /\ issued' = h.urls
    /\ res' = h.res
    /\ reqUser' = user
    /\ route' = [r EXCEPT !.handler = reached, !.queries = h.queries]
    /\ served' = served + 1
    /\ phase' = "responded"
    /\ UNCHANGED <<store, ran, call, content_items, content_comments, env,
                   saved_inspiration, saving, hashtag_packs>>

\* the request of a social route, before it is served
SocialRequest(name, authHeader, platform) ==
    [name |-> name, authorization |-> authHeader, platform |-> platform,
     clientId |-> NoId, code |-> "", state |-> NoState, error |-> "",
     tokenAnswered |-> TRUE, profileAnswered |-> TRUE, mode |-> "ok",
     handler |-> FALSE, queries |-> 0]

SocialConnect ==
    /\ phase = "pending"
    /\ route = NoRoute
    /\ served < MaxSocialRequests
    /\ \E authHeader \in CallerHeaders, platform \in PathPlatforms,
          clientId \in {NoId, ClientKey, ClientKey + 1}, authMode \in DbModes,
          clientMode \in DbModes :
          /\ authMode # "ok" \/ clientMode # "ok" => platform = "tiktok" /\ clientId = ClientKey
          /\ authMode = "ok" \/ clientMode = "ok"
          /\ LET a == authenticateToken(authHeader, NoUser, authMode)
                 h == IF a.nexts = 0
                      THEN SocialHandled(a.res, social_accounts, test_table, issued, 0)
                      ELSE GetConnect(platform, clientId, a.user, clientMode)
             IN SocialServed([SocialRequest("GET /api/social/connect/:platform",
                                            authHeader, platform)
                                 EXCEPT !.clientId = clientId, !.mode = clientMode],
                             a.user, a.nexts > 0, h)

\* the state parameters a callback can carry: those the connect route can
\* issue, and any other string
CallbackStates ==
    {EncodeState(u, c) : u \in Accounts \cup {NoId, NumAccounts + 1}, c \in {NoId, ClientKey}}
    \cup {StateString("null", NoId, NoId), StateString("garbage", NoId, NoId)}

\* the requests that differ in one respect from a callback the platform
\* redirected to after the user's consent
CallbackDeviations(r) ==
    {[r EXCEPT !.error = "access_denied"], [r EXCEPT !.code = ""], [r EXCEPT !.state = NoState],
     [r EXCEPT !.tokenAnswered = FALSE], [r EXCEPT !.profileAnswered = FALSE],
     [r EXCEPT !.mode = "error"], [r EXCEPT !.mode = "throw"]}

SocialCallback ==
    /\ phase = "pending"
    /\ route = NoRoute
    /\ served < MaxSocialRequests
    /\ \E authHeader \in {NoHeader, BearerOf(1)}, platform \in PathPlatforms,
          state \in CallbackStates :
          LET consented == [SocialRequest("GET /api/social/callback/:platform",
                                          authHeader, platform)
                               EXCEPT !.code = "code", !.state = state]
          IN \E r \in {consented} \cup
                      (IF state = EncodeState(1, NoId) THEN CallbackDeviations(consented)
                       ELSE {}) :
                SocialServed(r, NoUser, TRUE,
                             GetCallback(platform, r, r.tokenAnswered, r.profileAnswered,
                                         r.mode))

TestWrite ==
    /\ phase = "pending"
    /\ route = NoRoute
    /\ served < MaxSocialRequests
    /\ \E authHeader \in {NoHeader, BearerOf(1)}, mode \in WriteModes :
          SocialServed([SocialRequest("POST /api/test/write", authHeader, "")
                           EXCEPT !.mode = mode],
                       NoUser, TRUE, PostWrite(mode))

\* the process runs with every credential configured, or with none
InitSocial ==
    /\ users = [u \in Accounts |-> AccountRow(u)]
    /\ workspaces = DefaultWorkspaces
    /\ workspace_members = {}
    /\ clients = [c \in {ClientKey} |->
                     [id |-> c, user_id |-> NoId, creator_id |-> 2, workspace_id |-> 1]]
    /\ reqUser = NoUser
    /\ res = NoRes
    /\ ran = <<>>
    /\ phase = "pending"
    /\ call = NoCall
    /\ content_items = <<>>
    /\ content_comments = <<>>
    /\ social_accounts = {}
    /\ test_table = 0
    /\ served = 0
    /\ env \in {Credentials, {}}
    /\ issued = {}
    /\ saved_inspiration = <<>>
    /\ saving = <<>>
    /\ hashtag_packs = <<>>
    /\ route = NoRoute

NextSocial ==
    \/ SocialConnect
    \/ SocialCallback
    \/ TestWrite
    \/ NewRequest

SpecSocial == InitSocial /\ [][NextSocial]_vars

----------------------------------------------------------------------------
(* The paginated lists: GET /api/content (content.js) and GET /api/users    *)
(* (users.js).  A query parameter reaches the handler as the string the    *)
(* URL carries; validatePagination checks it and does not convert it.  A   *)
(* JavaScript value is here a number or a string of decimal digits.        *)

MaxPage == 3
MaxRows == 3
MaxLimit == 100

JsNumber(n) == [t |-> "number", n |-> n, s |-> <<>>]
JsString(s) == [t |-> "string", n |-> 0, s |-> s]
Undefined == [t |-> "undefined", n |-> 0, s |-> <<>>]

\* the decimal digits of a natural number, and the number digits write
RECURSIVE DigitsOf(_)
DigitsOf(n) == IF n < 10 THEN <<n>> ELSE Append(DigitsOf(n \div 10), n % 10)

RECURSIVE ValueOf(_)
ValueOf(s) == IF s = <<>> THEN 0 ELSE 10 * ValueOf(SubSeq(s, 1, Len(s) - 1)) + s[Len(s)]

\* the conversions the operators apply
ToNumber(v) == IF v.t = "number" THEN v.n ELSE ValueOf(v.s)
ToDigits(v) == IF v.t = "string" THEN v.s ELSE DigitsOf(v.n)

\* a - b and a * b convert both operands to numbers
Minus(a, b) == JsNumber(ToNumber(a) - ToNumber(b))
Times(a, b) == JsNumber(ToNumber(a) * ToNumber(b))

\* a + b concatenates as soon as one operand is a string
Plus(a, b) ==
    IF a.t = "string" \/ b.t = "string" THEN JsString(ToDigits(a) \o ToDigits(b))
    ELSE JsNumber(a.n + b.n)

\* Math.ceil(count / limit)
Ceil(count, limit) == (count + ToNumber(limit) - 1) \div ToNumber(limit)

\* const { page = 1, limit = 20 } = req.query
OrDefault(v, d) == IF v = Undefined THEN JsNumber(d) ELSE v

\* validatePagination: isInt({ min: 1 }) and isInt({ min: 1, max: 100 }), both optional
PaginationValid(page, limit) ==
    /\ page # Undefined => ToNumber(page) >= 1
    /\ limit # Undefined => (ToNumber(limit) >= 1 /\ ToNumber(limit) <= MaxLimit)

\* the query strings a request can carry for page and for limit
PageParams == {Undefined} \cup {JsString(DigitsOf(n)) : n \in 0..MaxPage}
LimitParams == {Undefined} \cup {JsString(DigitsOf(n)) : n \in 0..(MaxLimit + 1)}

\* the ids in descending order: the rows as .order(..., { ascending: false }) lists them
RECURSIVE Descending(_)
Descending(ids) ==
    IF ids = {} THEN <<>>
    ELSE LET top == CHOOSE i \in ids : \A j \in ids : j <= i
         IN <<top>> \o Descending(ids \ {top})

\* .range(from, to): the rows at the positions from..to, counted from 0
Range(rows, from, to) ==
    IF from >= Len(rows) THEN <<>>
    ELSE SubSeq(rows, from + 1, IF to + 1 < Len(rows) THEN to + 1 ELSE Len(rows))

\* the rows of content_items a caller's list query matches
ItemsMatching(user, status) ==
    {i \in DOMAIN content_items :
        /\ user.role = "client" => content_items[i].client_id = user.id
        /\ user.role \in {"creator", "agency"} => content_items[i].creator_id = user.id
        /\ status # "" => content_items[i].status = status}

\* the rows of users a list query matches
UsersMatching(status) == {u \in DOMAIN users : status # "" => users[u].status = status}

\* what a list handler answers: the range it asked the store for, the rows it
\* got, the pagination it reports
Page(from, to, data, page, limit, total, pages) ==
    [from |-> from, to |-> to, data |-> data,
     pagination |-> [page |-> page, limit |-> limit, total |-> total, pages |-> pages]]

NoPage == Page(0, 0, <<>>, 0, 0, 0, 0)

\* the handlers of router.get('/') in content.js and in users.js, given the
\* ids the query matches
List(matching, pageParam, limitParam) ==
    LET page == OrDefault(pageParam, 1)
        limit == OrDefault(limitParam, 20)
        offset == Times(Minus(page, JsNumber(1)), limit)
        to == Minus(Plus(offset, limit), JsNumber(1))
    IN Page(offset.n, to.n, Range(Descending(matching), offset.n, to.n),
            ToNumber(page), ToNumber(limit), Cardinality(matching),
            Ceil(Cardinality(matching), limit))

\* a list route has served the request
ListServed(name, authHeader, pageParam, limitParam, status, response, listed) ==
    /\ res' = response
    /\ route' = [name |-> name, authorization |-> authHeader, page |-> pageParam,
                 limit |-> limitParam, status |-> status, listed |-> listed]
    /\ phase' = "responded"
    /\ UNCHANGED <<store, reqUser, ran, call, routeStore>>

\* router.get('/', authenticateToken, validatePagination, ...) of content.js
ContentList ==
    /\ phase = "pending"
    /\ route = NoRoute
    /\ \E authHeader \in ContentCallers, pageParam \in PageParams, limitParam \in LimitParams,
          status \in {"", "draft"} :
          LET a == authenticateToken(authHeader, NoUser, "ok")
          IN IF a.nexts = 0
             THEN ListServed("GET /api/content", authHeader, pageParam, limitParam, status,
                             a.res, NoPage)
             ELSE IF ~PaginationValid(pageParam, limitParam)
             THEN ListServed("GET /api/content", authHeader, pageParam, limitParam, status,
                             ValidationFailed, NoPage)
             ELSE ListServed("GET /api/content", authHeader, pageParam, limitParam, status,
                             Success(""),
                             List(ItemsMatching(a.user, status), pageParam, limitParam))

\* router.get('/', authenticateToken, requireRole(['admin']), validatePagination, ...)
\* of users.js
UsersList ==
    /\ phase = "pending"
    /\ route = NoRoute
    /\ \E authHeader \in ContentCallers, pageParam \in PageParams, limitParam \in LimitParams,
          status \in {"", "active"} :
          LET a == authenticateToken(authHeader, NoUser, "ok")
              r == requireRole(RoleList(<<"admin">>), a.user)
          IN IF a.nexts = 0
             THEN ListServed("GET /api/users", authHeader, pageParam, limitParam, status,
                             a.res, NoPage)
             ELSE IF r.nexts = 0
             THEN ListServed("GET /api/users", authHeader, pageParam, limitParam, status,
                             r.res, NoPage)
             ELSE IF ~PaginationValid(pageParam, limitParam)
             THEN ListServed("GET /api/users", authHeader, pageParam, limitParam, status,
                             ValidationFailed, NoPage)
             ELSE ListServed("GET /api/users", authHeader, pageParam, limitParam, status,
                             Success(""), List(UsersMatching(status), pageParam, limitParam))

\* the store holds up to MaxRows content items of the agency account
InitPages ==
    /\ users = [u \in RoleAccounts |-> AccountRow(u)]
    /\ workspaces = DefaultWorkspaces
    /\ workspace_members = {}
    /\ clients = [c \in {ClientKey} |->
                     [id |-> c, user_id |-> Len(RoleOrder), creator_id |-> 2,
                      workspace_id |-> 1]]
    /\ reqUser = NoUser
    /\ res = NoRes
    /\ ran = <<>>
    /\ phase = "pending"
    /\ call = NoCall
    /\ \E n \in 0..MaxRows :
          content_items =
             [i \in 1..n |-> Item(i, Str("a", FALSE, FALSE),
                                  IF i % 2 = 1 THEN "draft" ELSE "review", NoId, 2, "earlier")]
    /\ content_comments = <<>>
    /\ social_accounts = {}
    /\ test_table = 0
    /\ served = 0
    /\ env = {}
    /\ issued = {}
    /\ saved_inspiration = <<>>
    /\ saving = <<>>
    /\ hashtag_packs = <<>>
    /\ route = NoRoute

NextPages ==
    \/ ContentList
    \/ UsersList
    \/ NewRequest

SpecPages == InitPages /\ [][NextPages]_vars

----------------------------------------------------------------------------
(* POST /api/inspiration/save (analytics.js).  The handler awaits the      *)
(* lookup of the content, the query for an existing save and the insert;   *)
(* requests in flight take turns at every await.  `saving` holds, for each *)
(* request the server works on, its position and its locals; the chain up  *)
(* to the content lookup reads only tables these requests never write and  *)
(* is one step.                                                            *)

NumSavers == 2
Savers == 1..NumSavers

\* requests the route accepts in one behaviour
MaxSaves == MaxRequests + 2

\* the rows of trending_content, which no route of this router writes
trending_content == {1}

\* the contentId of a body: absent, the id of a row, an id of no row
SaveContentIds == {NoId, 1, 2}

SaveCallers == {NoHeader} \cup {BearerOf(u) : u \in 1..2}

\* a request slot nothing is in flight on
Idle(response, userId, contentId) ==
    [pc |-> "idle", userId |-> userId, contentId |-> contentId, res |-> response]

InFlight(pc, userId, contentId) ==
    [pc |-> pc, userId |-> userId, contentId |-> contentId, res |-> NoRes]

\* the rows .eq('user_id', userId).eq('content_id', contentId) selects
SavesOf(table, userId, contentId) ==
    {i \in DOMAIN table : table[i].user_id = userId /\ table[i].content_id = contentId}

\* the data of .single() over these rows: a row only when exactly one matches
\* and the store answers
existingSave(userId, contentId, mode) ==
    mode = "ok" /\ Cardinality(SavesOf(saved_inspiration, userId, contentId)) = 1

\* the request arrives: authenticateToken, the contentId test, the lookup of
\* the content
SaveReceive(p) ==
    /\ saving[p].pc = "idle"
    /\ served < MaxSaves
    /\ \E authHeader \in SaveCallers, contentId \in SaveContentIds, fetchMode \in {"ok", "error"} :
          LET a == authenticateToken(authHeader, NoUser, "ok")
          IN saving' = [saving EXCEPT ![p] =
                IF a.nexts = 0 THEN Idle(a.res, NoId, contentId)
                ELSE IF contentId = NoId
                THEN Idle(Json(400, "Content ID required",
                               "Please provide a content ID to save"), a.user.id, contentId)
                ELSE IF fetchMode = "error" \/ contentId \notin trending_content
                THEN Idle(Json(404, "Content not found",
                               "The requested content does not exist"), a.user.id, contentId)
                ELSE InFlight("check", a.user.id, contentId)]
    /\ served' = served + 1
    /\ UNCHANGED <<store, reqUser, res, ran, phase, call, route, content_items,
                   content_comments, social_accounts, test_table, env, issued,
                   saved_inspiration, hashtag_packs>>

\* "Check if already saved"
SaveCheck(p) ==
    /\ saving[p].pc = "check"
    /\ \E checkMode \in {"ok", "error"} :
          saving' = [saving EXCEPT ![p] =
             IF existingSave(@.userId, @.contentId, checkMode)
             THEN Idle(Json(409, "Already saved",
                            "This content is already in your saved collection"),
                       @.userId, @.contentId)
             ELSE InFlight("insert", @.userId, @.contentId)]
    /\ UNCHANGED <<store, reqUser, res, ran, phase, call, route, content_items,
                   content_comments, social_accounts, test_table, served, env, issued,
                   saved_inspiration, hashtag_packs>>

\* "Save to user's collection"
SaveInsert(p) ==
    /\ saving[p].pc = "insert"
    /\ \E insertMode \in {"ok", "error"} :
          IF insertMode = "error"
          THEN /\ saving' = [saving EXCEPT ![p] =
                                Idle(InternalServerError, @.userId, @.contentId)]
               /\ UNCHANGED saved_inspiration
          ELSE /\ saved_inspiration' =
                     Append(saved_inspiration,
                            [user_id |-> saving[p].userId, content_id |-> saving[p].contentId])
               /\ saving' = [saving EXCEPT ![p] =
                                Idle(Json(201, "", "Content saved to your inspiration collection"),
                                     @.userId, @.contentId)]
    /\ UNCHANGED <<store, reqUser, res, ran, phase, call, route, content_items,
                   content_comments, social_accounts, test_table, served, env, issued,
                   hashtag_packs>>

\* saved_inspiration is empty or holds one save of account 1
InitSave ==
    /\ users = [u \in RoleAccounts |-> AccountRow(u)]
    /\ workspaces = DefaultWorkspaces
    /\ workspace_members = {}
    /\ clients = <<>>
    /\ reqUser = NoUser
    /\ res = NoRes
    /\ ran = <<>>
    /\ phase = "pending"
    /\ call = NoCall
    /\ content_items = <<>>
    /\ content_comments = <<>>
    /\ social_accounts = {}
    /\ test_table = 0
    /\ served = 0
    /\ env = {}
    /\ issued = {}
    /\ route = NoRoute
    /\ hashtag_packs = <<>>
    /\ saving = [p \in Savers |-> Idle(NoRes, NoId, NoId)]
    /\ saved_inspiration \in {<<>>, <<[user_id |-> 1, content_id |-> 1]>>}

NextSave ==
    \/ \E p \in Savers : SaveReceive(p)
    \/ \E p \in Savers : SaveCheck(p)
    \/ \E p \in Savers : SaveInsert(p)

SpecSave == InitSave /\ [][NextSave]_vars

----------------------------------------------------------------------------
(* The hashtag packs of social.js: POST /api/hashtags/packs and GET, PUT,  *)
(* DELETE /api/hashtags/packs/:id.                                         *)

\* a hashtag: its text, whether blanks surround it, whether it starts with #
Tag(text, pad, hash) == [text |-> text, pad |-> pad, hash |-> hash]

\* cleanTag = tag.trim(); cleanTag.startsWith('#') ? cleanTag : `#${cleanTag}`
CleanTag(tag) == Tag(tag.text, FALSE, TRUE)
CleanHashtags(hashtags) == [i \in DOMAIN hashtags |-> CleanTag(hashtags[i])]

\* CHECK (platform IN (...)) of hashtag_packs; "" is NULL
PackPlatforms == {"tiktok", "instagram", "youtube", "linkedin", "twitter"}

Pack(id, userId, name, hashtags, purpose, platform, updatedAt) ==
    [id |-> id, user_id |-> userId, name |-> name, hashtags |-> hashtags,
     purpose |-> purpose, platform |-> platform, updated_at |-> updatedAt]

NoPack == Pack(NoId, NoId, Str("", FALSE, FALSE), <<>>, Str("", FALSE, FALSE), "", "")

\* the constraints of hashtag_packs: the CHECK on platform, the reference to users
PacksConstraints(table) ==
    \A i \in DOMAIN table :
        /\ table[i].platform \in PackPlatforms \cup {""}
        /\ table[i].user_id \in DOMAIN users

\* what a pack handler answers and the table it leaves
PacksHandled(response, packs) == [res |-> response, packs |-> packs]
PacksKept(response) == PacksHandled(response, hashtag_packs)

\* validateHashtagPack
PackValid(body) ==
    /\ Supplied(body, "name") /\ Trim(body.name).text # ""
    /\ Supplied(body, "hashtags")
    /\ Len(body.hashtags) >= 1 /\ Len(body.hashtags) <= 30
    /\ \A i \in DOMAIN body.hashtags : body.hashtags[i].hash /\ body.hashtags[i].text # ""

\* req.body of POST /packs
PackCreation == [name |-> Str("a", TRUE, FALSE), hashtags |-> <<Tag("t", TRUE, TRUE)>>]

PackCreationBodies ==
    {PackCreation, [hashtags |-> <<Tag("t", FALSE, TRUE)>>],
     With(PackCreation, "hashtags", <<>>),
     With(PackCreation, "hashtags", <<Tag("t", FALSE, FALSE)>>),
     With(PackCreation, "purpose", Str("p", TRUE, FALSE)),
     With(PackCreation, "platform", "tiktok"), With(PackCreation, "platform", "facebook"),
     With(PackCreation, "user_id", 1)}

\* router.post('/packs') handler
PostPack(user, body, insertMode) ==
    LET id == FreshId(DOMAIN hashtag_packs)
        inserted == [i \in DOMAIN hashtag_packs \cup {id} |->
                        IF i = id
                        THEN Pack(id, user.id, Trim(body.name), CleanHashtags(body.hashtags),
                                  IF Supplied(body, "purpose") THEN Trim(body.purpose)
                                  ELSE Str("", FALSE, FALSE),
                                  IF Supplied(body, "platform") THEN body.platform ELSE "",
                                  "now")
                        ELSE hashtag_packs[i]]
    IN IF insertMode # "ok" \/ ~PacksConstraints(inserted)
       THEN PacksKept(InternalServerError)
       ELSE PacksHandled(Json(201, "", "Hashtag pack created successfully"), inserted)

PacksOfAnyone(userId) == hashtag_packs

\* .from('hashtag_packs') ... .eq('user_id', userId)
PacksOf(userId) ==
    [i \in {j \in DOMAIN hashtag_packs : hashtag_packs[j].user_id = userId} |-> hashtag_packs[i]]

\* router.get('/packs/:id') handler
GetPack(id, user, fetchMode) ==
    LET pack == Single(PacksOf(user.id), id, NoPack, fetchMode)
    IN IF pack.threw
       THEN PacksKept(InternalServerError)
       ELSE IF pack.error
       THEN IF pack.code = "PGRST116"
            THEN PacksKept(Json(404, "Pack not found",
                                "The requested hashtag pack does not exist"))
            ELSE PacksKept(InternalServerError)
       ELSE PacksKept(Success(""))

\* req.body of PUT /packs/:id
PackUpdateBodies ==
    {<<>>, [name |-> Str("b", TRUE, FALSE)], [name |-> Str("", FALSE, FALSE)],
     [purpose |-> Str("p", TRUE, FALSE)], [platform |-> "tiktok"], [platform |-> "facebook"],
     [hashtags |-> <<Tag("u", TRUE, FALSE)>>],
     [name |-> Str("b", FALSE, FALSE), user_id |-> 1, id |-> MaxRequests + 2]}

\* updateData: updated_at, and the name, purpose, platform and hashtags the
\* body holds truthy
PackUpdateData(body) ==
    [f \in {"updated_at"}
           \cup {g \in {"name", "purpose"} : TruthyField(body, g)}
           \cup {g \in {"platform"} : Supplied(body, g) /\ TruthyText(body[g])}
           \cup {g \in {"hashtags"} : Supplied(body, g)} |->
        IF f = "updated_at" THEN "now"
        ELSE IF f = "platform" THEN body[f]
        ELSE IF f = "hashtags" THEN CleanHashtags(body[f])
        ELSE Trim(body[f])]

\* router.put('/packs/:id') handler
PutPack(id, user, body, fetchMode, updateMode) ==
    LET existingPack == Single(PacksOf(user.id), id, NoPack, fetchMode)
        updated == [hashtag_packs EXCEPT ![id] = ItemUpdated(@, PackUpdateData(body))]
    IN IF existingPack.threw
       THEN PacksKept(InternalServerError)
       ELSE IF LookupRejected(existingPack, NoPack)
       THEN PacksKept(Json(404, "Pack not found", "The requested hashtag pack does not exist"))
       ELSE IF updateMode # "ok" \/ ~PacksConstraints(updated)
       THEN PacksKept(InternalServerError)
       ELSE PacksHandled(Success("Hashtag pack updated successfully"), updated)

\* router.delete('/packs/:id') handler
DeletePack(id, user, fetchMode, deleteMode) ==
    LET existingPack == Single(PacksOf(user.id), id, NoPack, fetchMode)
    IN IF existingPack.threw
       THEN PacksKept(InternalServerError)
       ELSE IF LookupRejected(existingPack, NoPack)
       THEN PacksKept(Json(404, "Pack not found", "The requested hashtag pack does not exist"))
       ELSE IF deleteMode # "ok"
       THEN PacksKept(InternalServerError)
       ELSE PacksHandled(Success("Hashtag pack deleted successfully"),
                         Without(hashtag_packs, id))

\* the failures of the persistence layer during one pack request
PackFaults ==
    {f \in [auth : DbModes, fetch : DbModes, write : DbModes] :
        Cardinality({k \in DOMAIN f : f[k] # "ok"}) <= 1}

\* the :id of a pack path: no UUID, the id of a row, an id of no row
PathPackIds == {NoId} \cup DOMAIN hashtag_packs \cup {MaxRequests + 2}

\* a chain authenticateToken, validator, handler has served the request
PacksServed(name, authHeader, id, body, f, a, h) ==
    /\ hashtag_packs' = h.packs
    /\ res' = h.res
    /\ reqUser' = a.user
    /\ route' = [name |-> name, authorization |-> authHeader, id |-> id, body |-> body,
                 faults |-> f]
    /\ served' = served + 1
    /\ phase' = "responded"
    /\ UNCHANGED <<store, ran, call, content_items, content_comments, social_accounts,
                   test_table, env, issued, saved_inspiration, saving>>

PacksPost ==
    /\ phase = "pending"
    /\ route = NoRoute
    /\ served < MaxRequests
    /\ \E authHeader \in ContentCallers, body \in PackCreationBodies, f \in PackFaults :
          /\ f.fetch = "ok"
          /\ LET a == authenticateToken(authHeader, NoUser, f.auth)
                 h == IF a.nexts = 0 THEN PacksKept(a.res)
                      ELSE IF ~PackValid(body) THEN PacksKept(ValidationFailed)
                      ELSE PostPack(a.user, body, f.write)
             IN PacksServed("POST /api/hashtags/packs", authHeader, NoId, body, f, a, h)

PacksGet ==
    /\ phase = "pending"
    /\ route = NoRoute
    /\ served < MaxRequests
    /\ \E authHeader \in ContentCallers, id \in PathPackIds, f \in PackFaults :
          /\ f.write = "ok"
          /\ LET a == authenticateToken(authHeader, NoUser, f.auth)
                 h == IF a.nexts = 0 THEN PacksKept(a.res)
                      ELSE IF ~IsUUID(id) THEN PacksKept(ValidationFailed)
                      ELSE GetPack(id, a.user, f.fetch)
             IN PacksServed("GET /api/hashtags/packs/:id", authHeader, id, <<>>, f, a, h)

PacksPut ==
    /\ phase = "pending"
    /\ route = NoRoute
    /\ served < MaxRequests
    /\ \E authHeader \in ContentCallers, id \in PathPackIds, body \in PackUpdateBodies,
          f \in PackFaults :
          LET a == authenticateToken(authHeader, NoUser, f.auth)
              h == IF a.nexts = 0 THEN PacksKept(a.res)
                   ELSE IF ~IsUUID(id) THEN PacksKept(ValidationFailed)
                   ELSE PutPack(id, a.user, body, f.fetch, f.write)
          IN PacksServed("PUT /api/hashtags/packs/:id", authHeader, id, body, f, a, h)

PacksDelete ==
    /\ phase = "pending"
    /\ route = NoRoute
    /\ served < MaxRequests
    /\ \E authHeader \in ContentCallers, id \in PathPackIds, f \in PackFaults :
          LET a == authenticateToken(authHeader, NoUser, f.auth)
              h == IF a.nexts = 0 THEN PacksKept(a.res)
                   ELSE IF ~IsUUID(id) THEN PacksKept(ValidationFailed)
                   ELSE DeletePack(id, a.user, f.fetch, f.write)
          IN PacksServed("DELETE /api/hashtags/packs/:id", authHeader, id, <<>>, f, a, h)

\* hashtag_packs is empty or holds one pack, of the admin account or of the
\* agency account
InitPacks ==
    /\ users = [u \in RoleAccounts |-> AccountRow(u)]
    /\ workspaces = DefaultWorkspaces
    /\ workspace_members = {}
    /\ clients = <<>>
    /\ reqUser = NoUser
    /\ res = NoRes
    /\ ran = <<>>
    /\ phase = "pending"
    /\ call = NoCall
    /\ content_items = <<>>
    /\ content_comments = <<>>
    /\ social_accounts = {}
    /\ test_table = 0
    /\ served = 0
    /\ env = {}
    /\ issued = {}
    /\ route = NoRoute
    /\ saved_inspiration = <<>>
    /\ saving = <<>>
    /\ \/ hashtag_packs = <<>>
       \/ \E by \in 1..2 :
             hashtag_packs =
                [i \in {1} |-> Pack(1, by, Str("a", FALSE, FALSE), <<Tag("t", FALSE, TRUE)>>,
                                    Str("", FALSE, FALSE), "", "earlier")]

NextPacks ==
    \/ PacksPost
    \/ PacksGet
    \/ PacksPut
    \/ PacksDelete
    \/ NewRequest

SpecPacks == InitPacks /\ [][NextPacks]_vars

----------------------------------------------------------------------------
(* Properties.  They are stated over what a request carried and what the   *)
(* store holds, not through the operators the stages are built from.       *)

AfterAuth == call.stage = "authenticateToken"
AfterRole == call.stage = "requireRole"
AfterAccess == call.stage = "requireWorkspaceAccess"

Spaces(v) == {i \in 1..Len(v) : v[i] = SP}
Least(S) == CHOOSE x \in S : \A y \in S : x <= y

\* a header has a second space-separated part when it holds a space
HasSecondPart(h) == h.present /\ Spaces(h.value) # {}

\* the characters between the first space of a header and the next one (or the end)
Credential(h) ==
    IF ~HasSecondPart(h) THEN <<>>
    ELSE LET first == Least(Spaces(h.value))
             later == Spaces(h.value) \ {first}
             stop == IF later = {} THEN Len(h.value) + 1 ELSE Least(later)
         IN SubSeq(h.value, first + 1, stop - 1)

WellSigned(cred) == Len(cred) = 1 /\ cred[1].c = "jwt" /\ cred[1].key = "secret"
Verifies(cred) == WellSigned(cred) /\ cred[1].exp = "future"

UserLookedUp(id, outcome) ==
    call.lookups = <<[table |-> "users", id |-> id, outcome |-> outcome]>>

\* C1: authenticateToken calls next() exactly when the token verifies against the
\* secret, the lookup by the token's userId returns a row and that row is active;
\* then req.user is that row and no response is written; on every other path
\* next() is not called and req.user stays unset.
C1_NextIffVerifiedFoundActive ==
    AfterAuth =>
        LET cred == Credential(call.authorization)
            passes == /\ Verifies(cred)
                      /\ UserLookedUp(cred[1].userId, "row")
                      /\ users[cred[1].userId].status = "active"
        IN /\ (call.nexts = 1) <=> passes
           /\ call.nexts = 1 =>
                 reqUser = users[cred[1].userId] /\ res = NoRes /\ phase # "responded"
           /\ call.nexts # 1 => call.nexts = 0 /\ reqUser = NoUser /\ res # NoRes

C1_Witness ==
    /\ AfterAuth /\ call.nexts = 1
    /\ call.authorization = Header(<<Word("Basic"), SP, Jwt("secret", "future", 1)>>)
    /\ reqUser = users[1] /\ reqUser.role = "agency"

\* C2: a request with no Authorization header, or with a header that has no
\* second space-separated part, is answered 401 without jwt.verify being called
\* and without any lookup.
C2_NoCredentialIs401 ==
    (AfterAuth /\ ~HasSecondPart(call.authorization)) =>
        /\ res.status = 401
        /\ ~call.verified
        /\ call.lookups = <<>>
        /\ call.nexts = 0 /\ reqUser = NoUser

C2_Witness ==
    /\ AfterAuth /\ call.authorization = Header(<<Jwt("secret", "future", 1)>>)
    /\ 1 \in DOMAIN users /\ users[1].status = "active"
    /\ res.status = 401 /\ res.error = "Access token required"

\* C3: a validly-signed but expired token is answered 401 'Token expired'; a
\* malformed or badly-signed token is answered 401 'Invalid token'; neither is
\* answered 500.
C3_ExpiredDistinctFromInvalid ==
    (AfterAuth /\ Credential(call.authorization) # <<>>) =>
        LET cred == Credential(call.authorization)
        IN /\ (WellSigned(cred) /\ cred[1].exp = "past") =>
                 res.status = 401 /\ res.error = "Token expired"
           /\ ~WellSigned(cred) =>
                 res.status = 401 /\ res.error = "Invalid token"
                 /\ res.message = "The provided token is malformed"

C3_Witness ==
    /\ AfterAuth /\ call.authorization = Header(<<Word("Bearer"), SP, Jwt("secret", "past", 1)>>)
    /\ res = Json(401, "Token expired", "Please log in again")
    /\ call.verified /\ call.lookups = <<>>

\* C4: a resolved user whose status is not 'active' is answered 403 whatever the
\* role, admin included; the stage does not call next() and the request is over.
C4_InactiveIs403 ==
    \A u \in DOMAIN users :
        (AfterAuth /\ UserLookedUp(u, "row") /\ users[u].status # "active") =>
            /\ res.status = 403 /\ res.error = "Account inactive"
            /\ call.nexts = 0 /\ reqUser = NoUser
            /\ phase = "responded" /\ ran = <<"authenticateToken">>

C4_Witness ==
    /\ AfterAuth /\ UserLookedUp(1, "row")
    /\ users[1].role = "admin" /\ users[1].status = "suspended"
    /\ res.status = 403

\* C5: for a token that verified, a user lookup that reports an error other
\* than a missing row is answered with the generic 500.
C5_LookupErrorIs500 ==
    \A u \in UserIds :
        (AfterAuth /\ UserLookedUp(u, "UNEXPECTED")) => res.status = 500

----------------------------------------------------------------------------
(* requireRole and requireWorkspaceAccess *)

\* the roles a route's argument names
AllowList(roles) == {roles.val[i] : i \in 1..Len(roles.val)}

\* C6: with req.user set, requireRole(roles) calls next() exactly when
\* req.user.role is a member of the allow-list (one role string counting as a
\* one-element list); every other role is answered 403, admin included.
C6_RoleGateExactMembership ==
    (AfterRole /\ reqUser # NoUser) =>
        /\ (call.nexts = 1) <=> (reqUser.role \in AllowList(call.roles))
        /\ call.nexts = 1 => res = NoRes /\ phase # "responded"
        /\ call.nexts # 1 =>
              /\ call.nexts = 0 /\ phase = "responded"
              /\ res.status = 403 /\ res.error = "Insufficient permissions"

C6_Witness ==
    /\ AfterRole /\ reqUser.role = "admin"
    /\ call.roles = RoleString("creator")
    /\ res.status = 403

\* C7: when req.user is absent, requireRole answers 401 whatever the allow-list
\* and does not call next().
C7_RoleGateNeedsIdentity ==
    (AfterRole /\ reqUser = NoUser) =>
        /\ res.status = 401 /\ res.error = "Authentication required"
        /\ call.nexts = 0 /\ phase = "responded"

C7_Witness ==
    /\ AfterRole /\ reqUser = NoUser
    /\ call.roles = RoleList(<<"admin", "agency">>)
    /\ res.status = 401 /\ ran = <<"requireRole">>

\* C8: a caller with role 'admin' passes requireWorkspaceAccess for every
\* workspaceId and clientId, those of no row included, and no lookup is made.
C8_AdminBypass ==
    (AfterAccess /\ reqUser.role = "admin") =>
        /\ call.nexts = 1 /\ res = NoRes /\ phase # "responded"
        /\ call.lookups = <<>>

C8_Witness ==
    /\ AfterAccess /\ reqUser.role = "admin"
    /\ call.workspaceId \notin DOMAIN workspaces /\ call.workspaceId # NoId
    /\ call.clientId \notin DOMAIN clients /\ call.clientId # NoId
    /\ call.nexts = 1

\* the workspace check denied the request
WorkspaceDenied ==
    /\ res.status = 403 /\ res.message = "You do not have access to this workspace"
    /\ call.nexts = 0 /\ Len(call.lookups) = 1

\* the workspace check passed: the stage went on to the client check, or to
\* next() when the path names no client
WorkspacePassed ==
    IF call.clientId = NoId THEN call.nexts = 1 /\ res = NoRes
    ELSE Len(call.lookups) = 2 /\ call.lookups[2].table = "clients"

\* C9: for a non-admin caller and an existing workspace the workspace check
\* passes exactly when the caller is the owner or has a membership row with
\* status 'active'; otherwise the answer is 403.
C9_WorkspaceOwnerOrActiveMember ==
    \A w \in DOMAIN workspaces :
        (/\ AfterAccess /\ reqUser # NoUser /\ reqUser.role # "admin"
         /\ call.workspaceId = w
         /\ call.lookups # <<>>
         /\ call.lookups[1] = [table |-> "workspaces", id |-> w, outcome |-> "row"]) =>
            LET entitled ==
                    \/ workspaces[w].owner_id = reqUser.id
                    \/ [workspace_id |-> w, user_id |-> reqUser.id, status |-> "active"]
                          \in workspace_members
            IN /\ entitled => WorkspacePassed
               /\ ~entitled => WorkspaceDenied

C9_Witness ==
    /\ AfterAccess /\ call.workspaceId = 1 /\ call.clientId = NoId
    /\ reqUser.role = "creator" /\ workspaces[1].owner_id # reqUser.id
    /\ [workspace_id |-> 1, user_id |-> reqUser.id, status |-> "active"] \in workspace_members
    /\ call.nexts = 1

\* C10: for a caller with role 'client' and an existing client record the client
\* check passes exactly when client.user_id is the caller's id; otherwise the
\* answer is 403.
C10_ClientRoleOwnRecordOnly ==
    \A c \in DOMAIN clients :
        (/\ AfterAccess /\ reqUser.role = "client"
         /\ call.clientId = c
         /\ call.lookups # <<>>
         /\ call.lookups[Len(call.lookups)] = [table |-> "clients", id |-> c, outcome |-> "row"]) =>
            /\ (call.nexts = 1) <=> (clients[c].user_id = reqUser.id)
            /\ call.nexts = 1 => res = NoRes
            /\ call.nexts # 1 =>
                  /\ call.nexts = 0 /\ res.status = 403
                  /\ res.message = "You can only access your own client data"

C10_Witness ==
    /\ AfterAccess /\ reqUser.role = "client" /\ reqUser.id = 3
    /\ call.clientId = 1 /\ clients[1].user_id = 2
    /\ res.status = 403

----------------------------------------------------------------------------
(* The client check for creator and agency callers, missing rows, and the  *)
(* two checks together                                                     *)

ClientLookedUp(c, outcome) ==
    /\ call.lookups # <<>>
    /\ call.lookups[Len(call.lookups)] = [table |-> "clients", id |-> c, outcome |-> outcome]

WorkspaceLookedUp(w, outcome) ==
    /\ call.lookups # <<>>
    /\ call.lookups[1] = [table |-> "workspaces", id |-> w, outcome |-> outcome]

\* the caller owns the workspace the client record is grouped under
OwnsClientWorkspace(c) ==
    /\ clients[c].workspace_id \in DOMAIN workspaces
    /\ workspaces[clients[c].workspace_id].owner_id = reqUser.id

\* C11: for a creator or agency caller and an existing client record the client
\* check passes only if the caller owns the client's workspace; creator_id is
\* not consulted, so a client without a workspace is denied (403) to every such
\* caller, its creator included.
C11_ClientByWorkspaceOwnerOnly ==
    \A c \in DOMAIN clients :
        (/\ AfterAccess /\ reqUser.role \in {"creator", "agency"}
         /\ call.clientId = c /\ ClientLookedUp(c, "row")) =>
            /\ (call.nexts = 1) <=> OwnsClientWorkspace(c)
            /\ call.nexts # 1 =>
                  /\ call.nexts = 0 /\ res.status = 403
                  /\ res.message = "You do not have access to this client"

C11_Witness ==
    /\ AfterAccess /\ reqUser.role = "creator"
    /\ call.clientId = 1 /\ ClientLookedUp(1, "row")
    /\ clients[1].creator_id = reqUser.id /\ clients[1].workspace_id = NoId
    /\ res.status = 403

\* C12: for a non-admin caller a workspaceId of no row is answered 404 with the
\* workspaces lookup as the only lookup made, a clientId of no row is answered
\* 404, and a lookup that reports an error is answered the same way.
C12_MissingRowIs404 ==
    (AfterAccess /\ reqUser # NoUser /\ reqUser.role # "admin") =>
        /\ \A o \in {"PGRST116", "UNEXPECTED"} :
              (call.workspaceId # NoId /\ WorkspaceLookedUp(call.workspaceId, o)) =>
                  /\ res = Json(404, "Workspace not found",
                                "The requested workspace does not exist")
                  /\ Len(call.lookups) = 1 /\ call.nexts = 0
        /\ \A o \in {"PGRST116", "UNEXPECTED"} :
              (call.clientId # NoId /\ ClientLookedUp(call.clientId, o)) =>
                  /\ res = Json(404, "Client not found",
                                "The requested client does not exist")
                  /\ call.nexts = 0
        /\ call.workspaceId \notin DOMAIN workspaces \cup {NoId} =>
              res.status \in {404, 500} /\ Len(call.lookups) = 1
        /\ (call.clientId \notin DOMAIN clients \cup {NoId} /\ call.workspaceId = NoId) =>
              res.status \in {404, 500} /\ Len(call.lookups) = 1

C12_Witness ==
    /\ AfterAccess /\ reqUser.role = "creator"
    /\ call.workspaceId \notin DOMAIN workspaces
    /\ WorkspaceLookedUp(call.workspaceId, "PGRST116")
    /\ call.clientId = 1
    /\ res.status = 404

\* the caller is entitled to the workspace: its owner or an active member
WorkspaceEntitled(w) ==
    \/ workspaces[w].owner_id = reqUser.id
    \/ [workspace_id |-> w, user_id |-> reqUser.id, status |-> "active"] \in workspace_members

\* the caller is entitled to the client: a client-role caller linked to it, any
\* other caller owning its workspace
ClientEntitled(c) ==
    IF reqUser.role = "client" THEN clients[c].user_id = reqUser.id
    ELSE OwnsClientWorkspace(c)

\* C13: with a workspaceId and a clientId present and a non-admin caller, next()
\* is called only if the workspace check and the client check both pass; the
\* workspace check runs first and when it fails the client record is not looked
\* up; the client need not belong to the workspace of the path.
C13_BothChecksWorkspaceFirst ==
    (/\ AfterAccess /\ reqUser # NoUser /\ reqUser.role # "admin"
     /\ call.workspaceId # NoId /\ call.clientId # NoId) =>
        LET w == call.workspaceId
            c == call.clientId
            wsPass == WorkspaceLookedUp(w, "row") /\ WorkspaceEntitled(w)
        IN /\ call.lookups # <<>> /\ call.lookups[1].table = "workspaces"
           /\ ~wsPass => Len(call.lookups) = 1 /\ call.nexts = 0
           /\ wsPass => Len(call.lookups) = 2 /\ call.lookups[2].table = "clients"
           /\ (call.nexts = 1) <=>
                 (wsPass /\ ClientLookedUp(c, "row") /\ ClientEntitled(c))

C13_Witness ==
    /\ AfterAccess /\ reqUser.role = "client"
    /\ call.workspaceId = 1 /\ call.clientId = 1
    /\ clients[1].workspace_id # call.workspaceId
    /\ workspaces[1].owner_id # reqUser.id
    /\ call.nexts = 1

----------------------------------------------------------------------------
(* The pipeline as a whole *)

Position(stage) ==
    IF stage = "authenticateToken" THEN 1
    ELSE IF stage = "requireRole" THEN 2
    ELSE IF stage = "requireWorkspaceAccess" THEN 3 ELSE 0

\* C14: the stages of a request run in the order authenticateToken, requireRole,
\* requireWorkspaceAccess, each only after the one before it called next(); a
\* stage either calls next() once and writes no response or writes one response
\* and does not call next(); once a response is written no later stage runs and
\* no further lookup is made for that request.
C14_SequentialShortCircuit ==
    [][/\ \A i, j \in 1..Len(ran') : i < j => Position(ran'[i]) < Position(ran'[j])
       /\ Len(ran') > Len(ran) =>
             /\ ran' = Append(ran, call'.stage)
             /\ res = NoRes
             /\ ran # <<>> => call.nexts = 1
             /\ \/ call'.nexts = 1 /\ res' = NoRes
                \/ call'.nexts = 0 /\ res' # NoRes
       /\ res # NoRes =>
             \/ ran' = <<>> /\ res' = NoRes /\ call'.lookups = <<>>
             \/ ran' = ran /\ res' = res /\ call' = call]_vars

C14_Witness ==
    /\ ran = <<"authenticateToken", "requireRole", "requireWorkspaceAccess">>
    /\ call.nexts = 1 /\ Len(call.lookups) = 2
    /\ reqUser.role = "agency"

----------------------------------------------------------------------------
(* The responses of the three stages *)

\* the request failed to authenticate: no credential, a token that does not
\* verify, a subject with no row, or a role gate reached without an identity
AuthenticationFailure ==
    \/ /\ AfterAuth
       /\ \/ Credential(call.authorization) = <<>>
          \/ ~Verifies(Credential(call.authorization))
          \/ UserLookedUp(Credential(call.authorization)[1].userId, "PGRST116")
    \/ AfterRole /\ reqUser = NoUser

\* the caller is known and is refused: a deactivated account, a role outside
\* the allow-list, a workspace or client it has no claim to
AuthorizationDenial ==
    \/ /\ AfterAuth
       /\ \E u \in DOMAIN users : UserLookedUp(u, "row") /\ users[u].status # "active"
    \/ AfterRole /\ reqUser # NoUser /\ reqUser.role \notin AllowList(call.roles)
    \/ /\ AfterAccess /\ reqUser # NoUser /\ call.lookups # <<>>
       /\ call.lookups[Len(call.lookups)].outcome = "row"

\* the path names a workspace or a client that has no row
ResourceMissing ==
    /\ AfterAccess
    /\ \/ call.workspaceId \notin DOMAIN workspaces \cup {NoId}
       \/ call.clientId \notin DOMAIN clients \cup {NoId}

\* an exception was thrown inside the stage
ExceptionThrown ==
    \/ call.lookups # <<>> /\ call.lookups[Len(call.lookups)].outcome = "throw"
    \/ AfterAccess /\ reqUser = NoUser

\* C15: every response of the three stages has a status in {401, 403, 404, 500}
\* and a body with an error and a message; 401 is written only for
\* authentication failures, 403 only for inactive-account, role and ownership
\* denials, 404 only for a missing workspace or client, 500 only for an
\* exception thrown inside the stage.
C15_StatusTaxonomy ==
    res # NoRes =>
        /\ res.status \in {401, 403, 404, 500}
        /\ res.error # "" /\ res.message # ""
        /\ res.status = 401 => AuthenticationFailure
        /\ res.status = 403 => AuthorizationDenial
        /\ res.status = 404 => ResourceMissing
        /\ res.status = 500 => ExceptionThrown


----------------------------------------------------------------------------
(* The stages and the store *)

----------------------------------------------------------------------------
(* PUT /api/users/:id *)

\* the account a request's token names, NoId when it carries no valid token
CallerId(h) == IF Verifies(Credential(h)) THEN Credential(h)[1].userId ELSE NoId

\* the request just served was a PUT by an authenticated account that is no admin
NonAdminPut ==
    /\ route'.name = "PUT /api/users/:id"
    /\ route'.faults.auth = "ok"
    /\ CallerId(route'.authorization) \in DOMAIN users
    /\ users[CallerId(route'.authorization)].status = "active"
    /\ users[CallerId(route'.authorization)].role # "admin"

\* a step changed the role or the status of some user
RoleOrStatusChanged ==
    \E u \in DOMAIN users \cap DOMAIN users' :
        users'[u].role # users[u].role \/ users'[u].status # users[u].status

\* the step was the request of an admin
ByAdmin ==
    /\ route'.name = "PUT /api/users/:id"
    /\ CallerId(route'.authorization) \in DOMAIN users
    /\ users[CallerId(route'.authorization)].role = "admin"

NonEmpty(body, field) == field \in DOMAIN body /\ body[field] # ""

\* C17 as stated: a role or a status changes only in the request of an admin,
\* and a request of a non-admin that supplies a role or a status, whatever
\* its value, is answered 403 and changes nothing
C17_SuppliedRoleOrStatusIs403 ==
    [][/\ RoleOrStatusChanged => ByAdmin
       /\ (NonAdminPut /\ ({"role", "status"} \cap DOMAIN route'.body # {})) =>
              (res'.status = 403 /\ users' = users)]_vars

\* C17, amended: a role or a status changes only in the request of an admin;
\* a request of an authenticated non-admin to a well-formed id that supplies
\* a non-empty role or a non-empty status is answered 403 and changes
\* nothing, not even the other fields it supplied
C17_OnlyAdminChangesRoleOrStatus ==
    [][/\ RoleOrStatusChanged => ByAdmin
       /\ (/\ NonAdminPut
           /\ route'.id # NoId
           /\ (NonEmpty(route'.body, "role") \/ NonEmpty(route'.body, "status"))) =>
              (res'.status = 403 /\ users' = users)]_vars

\* account 2, an agency user, asked for status 'suspended' and a new first
\* name on its own row and was refused
C17_Witness ==
    /\ route.name = "PUT /api/users/:id"
    /\ CallerId(route.authorization) = 2
    /\ route.id = 2
    /\ route.body = [status |-> "suspended", firstName |-> Str("b", FALSE, FALSE)]
    /\ res.status = 403
    /\ users[2].role = "agency" /\ users[2].status = "active"
    /\ users[2].first_name = Str("a", FALSE, FALSE)

----------------------------------------------------------------------------
(* The content routes *)

\* the moves of the lifecycle draft -> review -> approved or rejected ->
\* scheduled -> published
LifecycleMoves ==
    {<<"draft", "review">>, <<"review", "approved">>, <<"review", "rejected">>,
     <<"approved", "scheduled">>, <<"rejected", "scheduled">>,
     <<"scheduled", "published">>}

\* C18: whatever create, update or comment request is served, the status of
\* a content item stays or makes one move of the lifecycle
C18_StatusFollowsLifecycle ==
    [][\A i \in DOMAIN content_items :
          \/ content_items'[i].status = content_items[i].status
          \/ <<content_items[i].status, content_items'[i].status>> \in LifecycleMoves]_vars

----------------------------------------------------------------------------
(* The social routes *)

\* C19: a request that carries no valid JWT does not reach the handler of
\* its route, and the persistence layer is neither queried nor changed for it
C19_NoHandlerWithoutJwt ==
    [][(route.name = "" /\ route'.name # "" /\ ~Verifies(Credential(route'.authorization))) =>
          /\ ~route'.handler
          /\ route'.queries = 0
          /\ social_accounts' = social_accounts
          /\ test_table' = test_table]_vars

\* the platforms the connect endpoint accepts
Accepted == {"tiktok", "instagram", "youtube", "linkedin", "twitter", "facebook"}

\* the connect request of an account for itself, every credential configured
ConnectAsked ==
    /\ route.name = "GET /api/social/connect/:platform"
    /\ route.platform \in Accepted
    /\ env = Credentials
    /\ CallerId(route.authorization) \in DOMAIN users
    /\ route.clientId = NoId

\* the callback of a flow the connect route began, the platform's endpoints
\* answering and the store working
CallbackOfFlow ==
    /\ route.name = "GET /api/social/callback/:platform"
    /\ route.platform \in Accepted
    /\ \E url \in issued : url.platform = route.platform /\ url.state = route.state
    /\ route.code # "" /\ route.error = ""
    /\ route.tokenAnswered /\ route.profileAnswered /\ route.mode = "ok"

\* C20: for each accepted platform the connect request is answered with an
\* authorization URL, and the callback of the flow stores the account and
\* redirects with connected=<platform>
C20_EveryAcceptedPlatformConnects ==
    /\ ConnectAsked =>
          /\ res.status = 200
          /\ \E url \in issued : url.platform = route.platform
    /\ CallbackOfFlow =>
          /\ res.status = 302 /\ res.error = "" /\ res.message = route.platform
          /\ \E r \in social_accounts :
                r.platform = route.platform /\ r.user_id = route.state.userId

\* the account whose request the step served holds role
CallerHas(role) ==
    /\ CallerId(route'.authorization) \in DOMAIN users
    /\ users[CallerId(route'.authorization)].role = role

\* the caller the code lets update the item: an admin, the item's creator, a
\* client-role caller whose id is the item's client_id
MayUpdate(item) ==
    \/ CallerHas("admin")
    \/ item.creator_id = CallerId(route'.authorization)
    \/ CallerHas("client") /\ item.client_id = CallerId(route'.authorization)

\* the caller the code lets delete the item: an admin, the item's creator
MayDelete(item) == CallerHas("admin") \/ item.creator_id = CallerId(route'.authorization)

\* the step served a request for route name
Serves(name) == route.name = "" /\ route'.name = name

\* the step served the request of an authenticated account for a well-formed
\* id, the persistence layer answering every call
AnsweredFor(name) ==
    /\ Serves(name)
    /\ CallerId(route'.authorization) \in DOMAIN users
    /\ route'.id # NoId
    /\ \A k \in DOMAIN route'.faults : route'.faults[k] = "ok"

C22_IdCreatorCreatedAtFixed ==
    [][/\ \A i \in DOMAIN content_items \cap DOMAIN content_items' :
             /\ content_items'[i].id = content_items[i].id
             /\ content_items'[i].creator_id = content_items[i].creator_id
             /\ content_items'[i].created_at = content_items[i].created_at
       /\ Serves("POST /api/content") =>
             \A i \in DOMAIN content_items' \ DOMAIN content_items :
                 /\ content_items'[i].id = i
                 /\ content_items'[i].creator_id = CallerId(route'.authorization)]_vars

\* the agency account sent a PUT naming another id, creator and creation
\* time for its item: the title changed, the three columns did not
C22_Witness ==
    /\ route.name = "PUT /api/content/:id"
    /\ route.id = 1
    /\ {"id", "creator_id", "created_at"} \subseteq DOMAIN route.body
    /\ res.status = 200
    /\ content_items[1].title = Str("b", FALSE, FALSE)
    /\ content_items[1].id = 1
    /\ content_items[1].creator_id = 2
    /\ content_items[1].created_at = "earlier"

\* the type of the comment a request asks for: 'comment' when it names none
AskedType(body) == IF "type" \in DOMAIN body THEN body.type ELSE "comment"

\* the caller the code lets comment on the item
MayComment(item) ==
    \/ item.creator_id = CallerId(route'.authorization)
    \/ item.client_id = CallerId(route'.authorization)
    \/ CallerHas("admin")

\* a comment request answered 201 left its row and the status its type stands for
CommentEffect ==
    (Serves("POST /api/content/:id/comments") /\ res'.status = 201) =>
        /\ Len(content_comments') = Len(content_comments) + 1
        /\ content_comments'[Len(content_comments')].content_item_id = route'.id
        /\ content_comments'[Len(content_comments')].user_id = CallerId(route'.authorization)
        /\ content_items'[route'.id].status =
              CASE AskedType(route'.body) = "approval" -> "approved"
                [] AskedType(route'.body) = "rejection" -> "draft"
                [] OTHER -> content_items[route'.id].status

\* a comment request of an account the item does not admit is answered 403
\* and changes nothing
CommentRefusal ==
    (/\ Serves("POST /api/content/:id/comments")
     /\ CallerId(route'.authorization) \in DOMAIN users
     /\ route'.faults.auth = "ok" /\ route'.faults.fetch = "ok"
     /\ route'.id \in DOMAIN content_items
     /\ "comment" \in DOMAIN route'.body /\ route'.body.comment.text # ""
     /\ ~MayComment(content_items[route'.id])) =>
        /\ res'.status = 403
        /\ content_comments' = content_comments
        /\ content_items' = content_items

\* C23: a comment request answered 201 has inserted the comment and set the
\* item's status to 'approved' for an approval, to 'draft' for a rejection,
\* and left it for any other type; a caller who is neither the item's
\* creator, nor named by its client_id, nor an admin is answered 403, with no
\* comment inserted and no status changed
C23_CommentCreatedStatusFollowsType == [][CommentEffect /\ CommentRefusal]_vars

----------------------------------------------------------------------------
(* DELETE /api/users/:id *)

----------------------------------------------------------------------------
(* The paginated lists *)

\* the number the digits of a supplied query parameter write
Written(v) == ValueOf(v.s)

\* C25: a list request that supplies page p >= 1 and limit L in 1..100 asks
\* the store for the rows (p-1)*L .. p*L-1, gets at most L rows, and
\* reports ceil(total / L) pages
C25_PageIsExactRange ==
    (/\ route.name \in {"GET /api/content", "GET /api/users"}
     /\ res.status = 200
     /\ route.page.t = "string" /\ route.limit.t = "string") =>
        LET p == Written(route.page)
            L == Written(route.limit)
            total == route.listed.pagination.total
        IN /\ route.listed.from = (p - 1) * L
           /\ route.listed.to = p * L - 1
           /\ Len(route.listed.data) <= L
           /\ route.listed.pagination.pages * L >= total
           /\ (route.listed.pagination.pages - 1) * L < total \/ total = 0

----------------------------------------------------------------------------
(* POST /api/inspiration/save *)

\* the request of slot p is answered in this step
SaveAnswered(p) == saving[p].pc # "idle" /\ saving'[p].pc = "idle"

\* C26: after every step of any interleaving of save requests
\* saved_inspiration holds at most one row for every user and content id,
\* and a request answered while its user's save of the content exists is
\* answered 409 and inserts nothing
C26_SavedAtMostOnce ==
    [][/\ \A i, j \in DOMAIN saved_inspiration' :
             (/\ saved_inspiration'[i].user_id = saved_inspiration'[j].user_id
              /\ saved_inspiration'[i].content_id = saved_inspiration'[j].content_id) => i = j
       /\ \A p \in Savers :
             (/\ SaveAnswered(p)
              /\ \E i \in DOMAIN saved_inspiration :
                    /\ saved_inspiration[i].user_id = saving[p].userId
                    /\ saved_inspiration[i].content_id = saving[p].contentId)
             => /\ saving'[p].res.status = 409
                /\ saved_inspiration' = saved_inspiration]_vars

----------------------------------------------------------------------------
(* Hashtag packs *)

PackRoutes ==
    {"GET /api/hashtags/packs/:id", "PUT /api/hashtags/packs/:id",
     "DELETE /api/hashtags/packs/:id"}

\* the pack of the path exists and belongs to another account than the caller
PackOfAnother ==
    /\ route'.id \in DOMAIN hashtag_packs
    /\ hashtag_packs[route'.id].user_id # CallerId(route'.authorization)

\* C27: a GET, PUT or DELETE of a pack whose user_id is not the caller's id
\* leaves hashtag_packs as it was and is answered 404, whatever the caller's
\* role; a step changes or removes only the pack of its path; no step changes
\* the user_id of a pack, and a POST gives the new pack the caller's id
C27_PacksIsolatedPerUser ==
    [][/\ \A i \in DOMAIN hashtag_packs :
             /\ i \in DOMAIN hashtag_packs' =>
                   hashtag_packs'[i].user_id = hashtag_packs[i].user_id
             /\ (i \notin DOMAIN hashtag_packs' \/ hashtag_packs'[i] # hashtag_packs[i]) =>
                   /\ i = route'.id
                   /\ hashtag_packs[i].user_id = CallerId(route'.authorization)
       /\ \A i \in DOMAIN hashtag_packs' \ DOMAIN hashtag_packs :
             hashtag_packs'[i].user_id = CallerId(route'.authorization)
       /\ \A name \in PackRoutes :
             /\ (Serves(name) /\ PackOfAnother) => hashtag_packs' = hashtag_packs
             /\ (AnsweredFor(name) /\ PackOfAnother) => res'.status = 404]_vars

\* the admin account asked to delete the pack of the agency account and was
\* answered 404; the pack is still there
C27_Witness ==
    /\ route.name = "DELETE /api/hashtags/packs/:id"
    /\ CallerId(route.authorization) = 1
    /\ users[1].role = "admin"
    /\ route.id = 1
    /\ res.status = 404
    /\ 1 \in DOMAIN hashtag_packs /\ hashtag_packs[1].user_id = 2

====
